---- MODULE Spec2Model ----
(***************************************************************************)
(* centillion: the Search class (src/src/search/search.py), the Config     *)
(* accessors it uses (src/src/config.py) and the connectors it drives      *)
(* (src/tests/doctypes/plain.py, src/src/doctypes/github.py), as a state   *)
(* machine over the search index, the remotes and one sync invocation.     *)
(*                                                                         *)
(* The whoosh index is the external Index Store: writer() takes the write  *)
(* lock or raises LockError, add_document appends (it does not look at the *)
(* unique id field), update_document deletes the documents with the same   *)
(* unique id and appends, delete_by_term deletes every match, and only     *)
(* commit() makes a writer's changes visible.                              *)
(***************************************************************************)
EXTENDS Integers, Sequences, FiniteSets, Bags, TLC

VARIABLES
    REGISTRY,      \* DoctypeRegistry.REGISTRY: doctype label -> declared schema
    config,        \* Config._CONFIG['doctypes']: sequence of [name, doctype]
    indexdir,      \* the index directory: [exists, schema]
    ix,            \* committed documents of the index (a bag: add_document appends)
    search,        \* the Search object of this process: NoSearch or [schema]
    writelock,     \* TRUE while an abandoned (uncommitted) writer holds WRITELOCK
    remote,        \* per remote store: doc id -> remote document or Absent
    credsOK,       \* whether the remote accepts the Github access token
    instances,     \* the connector objects a caller holds: name -> object or None
    procs,         \* the processes that write to the index directly: id -> position
    pc,            \* position inside sync_documents
    pass,          \* locals of sync_documents
    last,          \* what the last call did (outcome, fetches, committed writes)
    runs           \* history of consecutive sync invocations

vars == <<REGISTRY, config, indexdir, ix, search, writelock, remote, credsOK, instances,
          procs, pc, pass, last, runs>>

---------------------------------------------------------------------------
(* Bounds of the model *)

\* timestamps are 0 .. MaxTime (t0 = 0 < t1 = 1 < ...)
MaxTime == 1
\* copies of one empty document ({} fetched from Github) the index may hold
MaxEmpty == 1

Times == 0 .. MaxTime

---------------------------------------------------------------------------
(* Values *)

NoneVal == [tag |-> "None"]
Absent == [tag |-> "absent"]
NoSearch == [tag |-> "no-search"]
NoError == [exc |-> "", msg |-> "", field |-> "", doctype |-> ""]

Error(exc, msg, field, doctype) ==
    [exc |-> exc, msg |-> msg, field |-> field, doctype |-> doctype]

\* whoosh.fields field types, with the options the sources use
FieldType(cls, stored, unique, boost) ==
    [cls |-> cls, stored |-> stored, unique |-> unique, field_boost |-> boost]

TEXT(stored) == FieldType("TEXT", stored, FALSE, 1)
ID(stored) == FieldType("ID", stored, FALSE, 1)
DATETIME(stored) == FieldType("DATETIME", stored, FALSE, 1)
KEYWORD(stored) == FieldType("KEYWORD", stored, FALSE, 1)

Decl(field, ftype) == [field |-> field, ftype |-> ftype]

\* Doctype.common_schema, in declaration order
common_schema ==
    << Decl("id", FieldType("ID", TRUE, TRUE, 1)),
       Decl("fingerprint", ID(TRUE)),
       Decl("kind", ID(TRUE)),
       Decl("created_time", DATETIME(TRUE)),
       Decl("modified_time", DATETIME(TRUE)),
       Decl("indexed_time", DATETIME(TRUE)),
       Decl("name", FieldType("TEXT", TRUE, FALSE, 100)) >>

\* PlainDoctype.schema
PlainSchema == << >>

\* GithubIssuePRDoctype.schema
GithubIssuePRSchema ==
    << Decl("issue_title", FieldType("TEXT", TRUE, FALSE, 100)),
       Decl("issue_url", ID(TRUE)),
       Decl("repo_name", TEXT(TRUE)),
       Decl("github_user", KEYWORD(TRUE)),
       Decl("content", TEXT(TRUE)) >>

\* SearchSchemaTest.MismatchedSchemas1.schema
MismatchedSchemas1 ==
    << Decl("matched_field", TEXT(TRUE)), Decl("mismatched_field", TEXT(TRUE)) >>

\* SearchSchemaTest.MismatchedSchemas2.schema, for a second declaration (the
\* test declares mismatched_field=DATETIME(stored=True))
MismatchedSchemas2(field, ftype) ==
    << Decl("matched_field", TEXT(TRUE)), Decl(field, ftype) >>

\* the labels of the registered doctypes, in sorted() order
KindOrder == << "github_issue_pr", "mismatched-1", "mismatched-2", "plain" >>
Kinds == { KindOrder[i] : i \in 1 .. Len(KindOrder) }

Cred(name, doctype) == [name |-> name, doctype |-> doctype]

---------------------------------------------------------------------------
(* Config *)

\* Config.get_doctypes: sorted(list(set of the configured doctype labels))
get_doctypes(cfg) ==
    SelectSeq(KindOrder, LAMBDA k : \E i \in 1 .. Len(cfg) : cfg[i].doctype = k)

RECURSIVE names_map_fold(_, _, _)
\* the loop of Config.get_doctypes_names_map over the credentials from the
\* i-th on; m maps the doctypes seen so far to a list of names or NoneVal.
\* list.append returns None, so a second name of a doctype stores None and a
\* third raises AttributeError ('NoneType' object has no attribute 'append').
names_map_fold(cfg, i, m) ==
    IF i > Len(cfg) THEN [ok |-> TRUE, map |-> m, err |-> NoError]
    ELSE LET name == cfg[i].name
             doctype == cfg[i].doctype
         IN IF doctype \in DOMAIN m
            THEN IF m[doctype] = NoneVal
                 THEN [ok |-> FALSE, map |-> m,
                       err |-> Error("AttributeError", "append", "", doctype)]
                 ELSE names_map_fold(cfg, i + 1, [m EXCEPT ![doctype] = NoneVal])
            ELSE names_map_fold(cfg, i + 1,
                     [k \in DOMAIN m \cup {doctype} |->
                         IF k = doctype THEN [tag |-> "list", items |-> <<name>>]
                         ELSE m[k]])

\* Config.get_doctypes_names_map
get_doctypes_names_map(cfg) == names_map_fold(cfg, 1, << >>)

---------------------------------------------------------------------------
(* Schema unification: Search.get_schema *)

HasField(schema, field) == \E i \in 1 .. Len(schema) : schema[i].field = field

FieldOf(schema, field) ==
    schema[CHOOSE i \in 1 .. Len(schema) : schema[i].field = field].ftype

\* a comparison that accepts every second declaration
types_never_differ(theirs, ours) == FALSE

\* a comparison of the whole declarations, options included
types_differ_exactly(theirs, ours) == theirs # ours

\* the comparison of search.py:57-59: type(theirs) != type(ours), the classes
\* of the two field objects
types_differ(theirs, ours) == theirs.cls # ours.cls

RECURSIVE merge_doctype_schema(_, _, _, _)
\* the inner loop of get_schema over the fields of one doctype's schema, from
\* the j-th on; _schema is the accumulated dict, in insertion order
merge_doctype_schema(_schema, doctype, this_doctype_schema, j) ==
    IF j > Len(this_doctype_schema)
    THEN [ok |-> TRUE, schema |-> _schema, err |-> NoError]
    ELSE LET schema_field == this_doctype_schema[j].field
             theirs == this_doctype_schema[j].ftype
         IN IF HasField(_schema, schema_field)
            THEN IF types_differ(theirs, FieldOf(_schema, schema_field))
                 THEN [ok |-> FALSE, schema |-> _schema,
                       err |-> Error("CentillionSearchIndexException",
                                     "schema mismatch with existing index for field",
                                     schema_field, doctype)]
                 ELSE merge_doctype_schema(_schema, doctype, this_doctype_schema, j + 1)
            ELSE merge_doctype_schema(Append(_schema, this_doctype_schema[j]),
                                      doctype, this_doctype_schema, j + 1)

RECURSIVE merge_doctypes(_, _, _, _)
\* the outer loop of get_schema over doctypes_list, from the i-th on
merge_doctypes(_schema, doctypes_list, reg, i) ==
    IF i > Len(doctypes_list)
    THEN [ok |-> TRUE, schema |-> _schema, err |-> NoError]
    ELSE LET doctype == doctypes_list[i] IN
         IF doctype \notin DOMAIN reg
         THEN [ok |-> FALSE, schema |-> _schema,
               err |-> Error("KeyError", "REGISTRY", "", doctype)]
         ELSE LET r == merge_doctype_schema(_schema, doctype, reg[doctype], 1) IN
              IF r.ok THEN merge_doctypes(r.schema, doctypes_list, reg, i + 1)
              ELSE r

\* whoosh.fields.Schema(**_schema): the fields by name; two Schemas are equal
\* when they hold the same names with equal field objects
Schema(_schema) == { _schema[i] : i \in 1 .. Len(_schema) }

\* Search.get_schema
get_schema(cfg, reg) ==
    LET r == merge_doctypes(common_schema, get_doctypes(cfg), reg, 1) IN
    [ok |-> r.ok, schema |-> Schema(r.schema), err |-> r.err]

---------------------------------------------------------------------------
(* Documents, remotes and connectors *)

\* the credential names of the configurations
PlainNames == {"p1", "p2", "p3"}
GithubNames == {"gh"}

\* PlainDoctype.document_registry is a class attribute: one store for every
\* PlainDoctype instance; a Github instance reads the repositories of its own
\* credentials
Stores == {"plain"} \cup GithubNames
StoreIds(store) == IF store = "plain" THEN {"A", "B", "C"} ELSE {"X"}
StoreKind(store) == IF store = "plain" THEN "plain" ELSE "github_issue_pr"

\* a document of the common schema; name stands for the display title, which
\* the remotes change together with modified_time
Doc(id, kind, t) == [id |-> id, kind |-> kind, modified_time |-> t, name |-> t]

\* the document whoosh stores for add_document() without any field
EmptyDoc == [id |-> "", kind |-> "", modified_time |-> -1, name |-> -1]

\* a process that is in none of the index calls: the call it made last (none
\* yet), the error that call raised, the ids it was given, those still to be
\* processed, and the buffer of its open writer
ProcIds == {"w1", "w2"}
IdleProc ==
    [pc |-> "idle", op |-> "", err |-> NoError, ids |-> {}, todo |-> << >>,
     buf |-> << >>]
NoProcs == [p \in ProcIds |-> IdleProc]

\* no connector object is held outside sync_documents
InstanceNames == {"gh", "gd"}
NoInstances == [n \in InstanceNames |-> NoneVal]

Instance(doctype, name) == [tag |-> "Doctype", doctype |-> doctype, name |-> name]
Dict(items) == [tag |-> "dict", items |-> items]

StoreOf(inst) == IF inst.doctype = "plain" THEN "plain" ELSE inst.name

\* Doctype.REGISTRY[doctype](cred_name): PlainDoctype.__init__ keeps the name;
\* GithubBaseDoctype.__init__ parses the config and validates the credentials
\* (CentillionConfigException when the remote rejects the token); a class that
\* only has the metaclass takes no constructor argument (TypeError)
instantiate(doctype, cred_name, creds_ok) ==
    IF doctype = "plain"
    THEN [err |-> NoError, inst |-> Instance(doctype, cred_name)]
    ELSE IF doctype = "github_issue_pr"
    THEN IF creds_ok
         THEN [err |-> NoError, inst |-> Instance(doctype, cred_name)]
         ELSE [err |-> Error("CentillionConfigException",
                             "invalid Github credentials", "", doctype),
               inst |-> NoneVal]
    ELSE [err |-> Error("TypeError", "takes no arguments", "", doctype),
          inst |-> NoneVal]

\* PlainDoctype.get_remote_map / GithubIssuePRDoctype.get_remote_map: the ids
\* the remote holds now, each with its modified date
connector_remote_map(rem, inst) ==
    LET docs == rem[StoreOf(inst)] IN
    Dict([id \in {i \in DOMAIN docs : docs[i] # Absent} |-> docs[id].modified_time])

\* PlainDoctype.get_by_id returns the registered document or None;
\* GithubIssuePRDoctype.get_by_id returns the document, or {} when neither
\* get_pull nor get_issue finds the number
connector_get_by_id(rem, inst, doc_id) ==
    LET docs == rem[StoreOf(inst)] IN
    IF doc_id \in DOMAIN docs /\ docs[doc_id] # Absent
    THEN Doc(doc_id, docs[doc_id].kind, docs[doc_id].modified_time)
    ELSE IF inst.doctype = "plain" THEN NoneVal ELSE Dict(<< >>)

---------------------------------------------------------------------------
(* The whoosh index: writers buffer, commit() publishes *)

writer_add_document(docs, doc) == docs (+) SetToBag({doc})

writer_delete_by_term(docs, doc_id) ==
    [d \in {e \in DOMAIN docs : e.id # doc_id} |-> docs[d]]

\* an update that keeps the documents already stored under the id
writer_update_keeping(docs, doc) == docs (+) SetToBag({doc})

\* update_document: delete what matches the document's unique field (id),
\* then add
writer_update_document(docs, doc) ==
    writer_add_document(writer_delete_by_term(docs, doc.id), doc)

IdsIn(docs) == { d.id : d \in DOMAIN docs }

\* Search.get_by_id: the first stored document with that id, or None. Which
\* of several documents with one id comes first is the index's document order.
get_by_id_results(docs, doc_id) ==
    IF doc_id \in IdsIn(docs) THEN { d \in DOMAIN docs : d.id = doc_id }
    ELSE { NoneVal }

\* Search.get_local_map: id -> modified_time over the stored documents whose
\* kind is the doctype; with several documents of one id the last one in the
\* index's document order stays in the dict, so every choice is a possible map
local_maps(docs, doctype) ==
    LET ofkind == { d \in DOMAIN docs : d.kind = doctype }
        ids == { d.id : d \in ofkind }
    IN { m \in [ids -> Times] :
           \A id \in ids : \E d \in ofkind : d.id = id /\ d.modified_time = m[id] }

---------------------------------------------------------------------------
(* Search: the operations on the index.  Each takes the committed documents,
   whether WRITELOCK is held, the remotes, and the order in which the Python
   set or list of ids is iterated; it gives the error raised (or NoError), the
   committed documents afterwards, whether its writer was left open, the ids
   fetched from the connector and the ids of the documents it committed. *)

Result(err, docs, leaked, fetched, written) ==
    [err |-> err, docs |-> docs, leaked |-> leaked,
     fetched |-> fetched, written |-> written]

LockError == Error("LockError", "", "", "")

Range(seq) == { seq[i] : i \in 1 .. Len(seq) }

\* the orders in which a set of ids may be iterated
Orders(S) == { o \in [1 .. Cardinality(S) -> S] : Range(o) = S }

RECURSIVE add_docs_loop(_, _, _, _, _, _, _)
\* the loop of add_docs (search.py:176-179) from the i-th id on; buf is the
\* writer's buffer
add_docs_loop(docs, buf, rem, to_add, inst, i, fetched) ==
    IF i > Len(to_add)
    THEN Result(NoError, buf, FALSE, fetched, Range(to_add))
    ELSE LET a == to_add[i]
             doc == connector_get_by_id(rem, inst, a)
         IN IF doc = NoneVal
            THEN \* writer.add_document(**None)
                 Result(Error("TypeError", "argument after ** must be a mapping", "", ""),
                        docs, TRUE, fetched \cup {a}, {})
            ELSE add_docs_loop(docs,
                     writer_add_document(buf, IF doc = Dict(<< >>) THEN EmptyDoc ELSE doc),
                     rem, to_add, inst, i + 1, fetched \cup {a})

\* add_docs that commits after every document
RECURSIVE add_docs_each(_, _, _, _, _, _, _)
add_docs_each(docs, buf, rem, to_add, inst, i, fetched) ==
    IF i > Len(to_add)
    THEN Result(NoError, buf, FALSE, fetched, Range(to_add))
    ELSE LET a == to_add[i]
             doc == connector_get_by_id(rem, inst, a)
         IN IF doc = NoneVal
            THEN Result(Error("TypeError", "argument after ** must be a mapping", "", ""),
                        buf, TRUE, fetched \cup {a}, {})
            ELSE add_docs_each(docs,
                     writer_add_document(buf, IF doc = Dict(<< >>) THEN EmptyDoc ELSE doc),
                     rem, to_add, inst, i + 1, fetched \cup {a})

add_docs_committing_each(docs, locked, rem, to_add, inst) ==
    IF locked THEN Result(LockError, docs, FALSE, {}, {})
    ELSE add_docs_each(docs, docs, rem, to_add, inst, 1, {})

\* Search.add_docs
add_docs(docs, locked, rem, to_add, inst) ==
    IF locked THEN Result(LockError, docs, FALSE, {}, {})
    ELSE add_docs_loop(docs, docs, rem, to_add, inst, 1, {})

RECURSIVE delete_docs_loop(_, _, _)
delete_docs_loop(buf, to_delete, i) ==
    IF i > Len(to_delete) THEN buf
    ELSE delete_docs_loop(writer_delete_by_term(buf, to_delete[i]), to_delete, i + 1)

\* delete_docs that deletes the first id it is given and commits
delete_docs_first_only(docs, locked, to_delete) ==
    IF locked THEN Result(LockError, docs, FALSE, {}, {})
    ELSE Result(NoError, writer_delete_by_term(docs, to_delete[1]), FALSE, {},
                {to_delete[1]} \cap IdsIn(docs))

\* Search.delete_docs
delete_docs(docs, locked, to_delete) ==
    IF locked THEN Result(LockError, docs, FALSE, {}, {})
    ELSE Result(NoError, delete_docs_loop(docs, to_delete, 1), FALSE, {},
                Range(to_delete) \cap IdsIn(docs))

\* the test of search.py:232 with >= for >
remote_is_newer_or_equal(remote_modified, local_modified) ==
    remote_modified >= local_modified

\* the test of search.py:232
remote_is_newer(remote_modified, local_modified) == remote_modified > local_modified

RECURSIVE update_docs_loop(_, _, _, _, _, _, _, _, _, _)
\* the loop of update_docs (search.py:228-235) from the i-th id on
update_docs_loop(docs, buf, rem, to_update, inst, remote_map, local_map, i, fetched, written) ==
    IF i > Len(to_update)
    THEN Result(NoError, buf, FALSE, fetched, written)
    ELSE LET doc_id == to_update[i] IN
         IF doc_id \notin DOMAIN remote_map.items \/ doc_id \notin DOMAIN local_map
         THEN Result(Error("KeyError", doc_id, "", ""), docs, TRUE, fetched, {})
         ELSE IF remote_is_newer(remote_map.items[doc_id], local_map[doc_id])
         THEN LET doc == connector_get_by_id(rem, inst, doc_id) IN
              IF doc = NoneVal
              THEN Result(Error("TypeError", "argument after ** must be a mapping", "", ""),
                          docs, TRUE, fetched \cup {doc_id}, {})
              ELSE update_docs_loop(docs,
                       IF doc = Dict(<< >>) THEN writer_add_document(buf, EmptyDoc)
                       ELSE writer_update_document(buf, doc),
                       rem, to_update, inst, remote_map, local_map, i + 1,
                       fetched \cup {doc_id}, written \cup {doc_id})
         ELSE update_docs_loop(docs, buf, rem, to_update, inst, remote_map, local_map,
                               i + 1, fetched, written)

\* Search.update_docs(to_update, doctype_instance, remote_map); local_maps gives
\* the possible results of get_local_map for a doctype label.  An argument
\* that is not a Doctype instance has no attribute doctype or get_remote_map.
update_docs(docs, locked, rem, to_update, doctype_instance, remote_map, local_map) ==
    IF locked THEN Result(LockError, docs, FALSE, {}, {})
    ELSE IF doctype_instance.tag # "Doctype"
    THEN Result(Error("AttributeError",
                      IF remote_map = NoneVal THEN "get_remote_map" ELSE "doctype", "", ""),
                docs, TRUE, {}, {})
    ELSE LET rmap == IF remote_map = NoneVal
                     THEN connector_remote_map(rem, doctype_instance)
                     ELSE remote_map
         IN IF rmap.tag # "dict" /\ Len(to_update) > 0
            THEN Result(Error("TypeError", "object is not subscriptable", "", ""),
                        docs, TRUE, {}, {})
            ELSE IF rmap.tag # "dict" THEN Result(NoError, docs, FALSE, {}, {})
            ELSE update_docs_loop(docs, docs, rem, to_update, doctype_instance,
                                  rmap, local_map, 1, {}, {})

\* diff with the intersection of to_update forgotten
diff_update_all_remote(remote_items, local_items) ==
    [to_add |-> remote_items \ local_items,
     to_delete |-> local_items \ remote_items,
     to_update |-> remote_items]

\* the set math of sync_documents (search.py:129-131)
diff(remote_items, local_items) ==
    [to_add |-> remote_items \ local_items,
     to_delete |-> local_items \ remote_items,
     to_update |-> remote_items \cap local_items]

RECURSIVE next_pair(_, _, _, _)
\* the two loop heads of sync_documents (search.py:111-117) with
\* credentials_list None: the next (doctype, cred_name), the end of the loops,
\* the KeyError of a doctype the names map has no entry for, or the TypeError
\* of iterating a None list of names
next_pair(names_map, doctypes, doctype, creds) ==
    IF Len(creds) > 0
    THEN [kind |-> "pair", doctype |-> doctype, cred_name |-> Head(creds),
          doctypes |-> doctypes, creds |-> Tail(creds), err |-> NoError]
    ELSE IF Len(doctypes) = 0
    THEN [kind |-> "done", doctype |-> doctype, cred_name |-> "",
          doctypes |-> doctypes, creds |-> creds, err |-> NoError]
    ELSE IF Head(doctypes) \notin DOMAIN names_map
    THEN [kind |-> "raise", doctype |-> Head(doctypes), cred_name |-> "",
          doctypes |-> doctypes, creds |-> creds,
          err |-> Error("KeyError", "doctypes_names_map", "", Head(doctypes))]
    ELSE LET credentials_names == names_map[Head(doctypes)] IN
         IF credentials_names = NoneVal
         THEN [kind |-> "raise", doctype |-> Head(doctypes), cred_name |-> "",
               doctypes |-> doctypes, creds |-> creds,
               err |-> Error("TypeError", "'NoneType' object is not iterable", "",
                             Head(doctypes))]
         ELSE next_pair(names_map, Tail(doctypes), Head(doctypes), credentials_names.items)

---------------------------------------------------------------------------
(* State *)

IdlePass ==
    [names_map |-> << >>, doctypes |-> << >>, doctype |-> "", creds |-> << >>,
     inst |-> NoneVal, remote_map |-> NoneVal, local_map |-> << >>,
     to_add |-> {}, to_delete |-> {}, to_update |-> {}, second |-> FALSE]

\* the record of a call: its name, the error it raised, what it fetched from
\* the connector, the ids of the documents it committed, the fetched ids the
\* remote no longer held, the pairs whose pass began and whose pass ended, the
\* ids given to update_docs, the schema get_schema built, the ids and the
\* document (for update_docs, the remote map) given as arguments, the value
\* returned, the warnings logged, and the remote API requests made
Call(op) ==
    [op |-> op, err |-> NoError, fetched |-> {}, written |-> {}, vanished |-> {},
     attempted |-> {}, completed |-> {}, to_update |-> {}, schema |-> {},
     second |-> FALSE, clean |-> TRUE, args |-> {}, doc |-> NoneVal,
     returned |-> NoneVal, warnings |-> {},
     api |-> {}]

NoRuns == [n |-> 0, dirty |-> FALSE, cycle |-> "none"]

Pair(doctype, name) == <<doctype, name>>

\* the (doctype, name) pairs of a configuration
Pairs(cfg) == { Pair(cfg[i].doctype, cfg[i].name) : i \in 1 .. Len(cfg) }

ConfiguredStores(cfg) ==
    { s \in Stores : \E i \in 1 .. Len(cfg) :
        StoreOf(Instance(cfg[i].doctype, cfg[i].name)) = s
        /\ cfg[i].doctype = StoreKind(s) }

CopiesOf(doc, docs) == IF doc \in DOMAIN docs THEN docs[doc] ELSE 0

\* the remote documents a connector can fetch
RemoteDoc(store, t) == [kind |-> StoreKind(store), modified_time |-> t]

NoRemote == [s \in Stores |-> [id \in StoreIds(s) |-> Absent]]

\* the registry of a process that imported the connectors and the test classes
Registry(field, ftype) ==
    [k \in Kinds |->
        IF k = "plain" THEN PlainSchema
        ELSE IF k = "github_issue_pr" THEN GithubIssuePRSchema
        ELSE IF k = "mismatched-1" THEN MismatchedSchemas1
        ELSE MismatchedSchemas2(field, ftype)]

\* the configurations of the synchronizer runs: one plain credential; a
\* Github and a plain credential; two and three credentials of one doctype
SyncConfigs ==
    { << Cred("p1", "plain") >>,
      << Cred("gh", "github_issue_pr"), Cred("p1", "plain") >>,
      << Cred("p1", "plain"), Cred("p2", "plain") >>,
      << Cred("p1", "plain"), Cred("p2", "plain"), Cred("p3", "plain") >> }

---------------------------------------------------------------------------
(* The history of consecutive sync invocations: n = 1 when a sync invocation
   has ended during which, and since which, neither a remote nor the index was
   touched by anything else; cycle follows the add/update/delete scenario of
   one plain instance (A, B, C at time 0; then B removed and C modified), each
   of its two invocations starting with WRITELOCK free, so that no LockError
   decides it. *)

PlainOnly == << Cred("p1", "plain") >>

CycleStart == [id \in StoreIds("plain") |-> RemoteDoc("plain", 0)]

CycleChanged ==
    [id \in StoreIds("plain") |->
        IF id = "B" THEN Absent
        ELSE IF id = "C" THEN RemoteDoc("plain", 1)
        ELSE RemoteDoc("plain", 0)]

BeginRun(rn, cfg, docs, rem, locked) ==
    [n |-> rn.n, dirty |-> FALSE,
     cycle |-> IF cfg = PlainOnly /\ docs = EmptyBag /\ ~locked
                  /\ rem["plain"] = CycleStart
               THEN "first"
               ELSE IF rn.cycle = "synced1" /\ ~locked /\ rem["plain"] = CycleChanged
               THEN "second"
               ELSE "none"]

EndRun(rn) ==
    [n |-> IF rn.dirty THEN 0 ELSE 1, dirty |-> FALSE,
     cycle |-> IF rn.cycle = "first" THEN "synced1"
               ELSE IF rn.cycle = "second" THEN "synced2"
               ELSE "none"]

RemoteChanged(rn) ==
    [n |-> 0, dirty |-> TRUE,
     cycle |-> IF rn.cycle = "synced1" THEN "synced1" ELSE "none"]

---------------------------------------------------------------------------
(* Search.sync_documents(), both arguments None *)

\* what a step of the invocation adds to the record of the call
Logged(r) ==
    [last EXCEPT !.fetched = @ \cup r.fetched,
                 !.written = @ \cup r.written,
                 !.vanished = @ \cup { a \in r.fetched :
                     connector_get_by_id(remote, pass.inst, a) \in {NoneVal, Dict(<< >>)} }]

\* the invocation returns or raises
SyncEnds(call, err) ==
    /\ pc' = "idle"
    /\ pass' = IdlePass
    /\ last' = [call EXCEPT !.err = err, !.second = pass.second, !.clean = ~runs.dirty]
    /\ runs' = EndRun(runs)

\* search.py:105-109: the names map and the list of doctypes
SyncBegin ==
    /\ search # NoSearch
    /\ pc = "idle"
    /\ LET nm == get_doctypes_names_map(config)
           rn == BeginRun(runs, config, ix, remote, writelock)
       IN IF nm.ok
          THEN /\ pc' = "pair"
               /\ pass' = [IdlePass EXCEPT !.names_map = nm.map,
                                           !.doctypes = get_doctypes(config),
                                           !.second = (runs.n = 1)]
               /\ last' = Call("sync")
               /\ runs' = rn
          ELSE /\ pc' = "idle"
               /\ pass' = IdlePass
               /\ last' = [Call("sync") EXCEPT !.err = nm.err, !.second = (runs.n = 1)]
               /\ runs' = EndRun(rn)
    /\ UNCHANGED <<REGISTRY, config, indexdir, ix, search, writelock, remote, credsOK, instances, procs>>

\* search.py:111-131: the next pair, its connector instance, the remote map,
\* the local map and the three buckets
PassEnumerate ==
    /\ pc = "pair"
    /\ LET np == next_pair(pass.names_map, pass.doctypes, pass.doctype, pass.creds) IN
       IF np.kind # "pair"
       THEN SyncEnds(last, np.err)
       ELSE LET made == instantiate(np.doctype, np.cred_name, credsOK)
                call == [last EXCEPT !.attempted = @ \cup {Pair(np.doctype, np.cred_name)}]
            IN IF made.err # NoError
               THEN SyncEnds(call, made.err)
               ELSE \E local_map \in local_maps(ix, np.doctype) :
                    LET remote_map == connector_remote_map(remote, made.inst)
                        buckets == diff(DOMAIN remote_map.items, DOMAIN local_map)
                    IN /\ pc' = "add"
                       /\ pass' = [pass EXCEPT !.doctypes = np.doctypes,
                                               !.doctype = np.doctype,
                                               !.creds = np.creds,
                                               !.inst = made.inst,
                                               !.remote_map = remote_map,
                                               !.local_map = local_map,
                                               !.to_add = buckets.to_add,
                                               !.to_delete = buckets.to_delete,
                                               !.to_update = buckets.to_update]
                       /\ last' = call
                       /\ runs' = runs
    /\ UNCHANGED <<REGISTRY, config, indexdir, ix, search, writelock, remote, credsOK, instances, procs>>

\* search.py:134: self.add_docs(to_add, doctype_instance)
PassAdd ==
    /\ pc = "add"
    /\ \E to_add \in Orders(pass.to_add) :
         LET r == add_docs(ix, writelock, remote, to_add, pass.inst) IN
         /\ ix' = r.docs
         /\ writelock' = (writelock \/ r.leaked)
         /\ IF r.err # NoError
            THEN SyncEnds(Logged(r), r.err)
            ELSE /\ pc' = "delete"
                 /\ last' = Logged(r)
                 /\ UNCHANGED <<pass, runs>>
    /\ UNCHANGED <<REGISTRY, config, indexdir, search, remote, credsOK, instances, procs>>

\* search.py:135: self.delete_docs(to_delete)
PassDelete ==
    /\ pc = "delete"
    /\ \E to_delete \in Orders(pass.to_delete) :
         LET r == delete_docs(ix, writelock, to_delete) IN
         /\ ix' = r.docs
         /\ writelock' = (writelock \/ r.leaked)
         /\ IF r.err # NoError
            THEN SyncEnds(Logged(r), r.err)
            ELSE /\ pc' = "update"
                 /\ last' = Logged(r)
                 /\ UNCHANGED <<pass, runs>>
    /\ UNCHANGED <<REGISTRY, config, indexdir, search, remote, credsOK, instances, procs>>

\* search.py:136: self.update_docs(to_update, remote_map, doctype_instance):
\* the remote map is passed where update_docs takes the connector instance,
\* and the instance where it takes the remote map
PassUpdate ==
    /\ pc = "update"
    /\ \E to_update \in Orders(pass.to_update), local_map \in local_maps(ix, pass.doctype) :
         LET r == update_docs(ix, writelock, remote, to_update,
                              pass.remote_map, pass.inst, local_map) IN
         /\ ix' = r.docs
         /\ writelock' = (writelock \/ r.leaked)
         /\ IF r.err # NoError
            THEN SyncEnds(Logged(r), r.err)
            ELSE /\ pc' = "pair"
                 /\ last' = [Logged(r) EXCEPT
                                !.completed = @ \cup {Pair(pass.doctype, pass.inst.name)}]
                 /\ UNCHANGED <<pass, runs>>
    /\ UNCHANGED <<REGISTRY, config, indexdir, search, remote, credsOK, instances, procs>>

---------------------------------------------------------------------------
(* Direct calls, the remotes and the runtime *)

\* the connector instances a caller can construct under the configuration
Instances ==
    { Instance(config[i].doctype, config[i].name) : i \in
        { j \in 1 .. Len(config) :
            instantiate(config[j].doctype, config[j].name, credsOK).err = NoError } }

\* s.update_docs(to_update, doctype_instance) and
\* s.update_docs(to_update, doctype_instance, remote_map), as the callers of
\* tests/test_search.py:198,212 make them: ids that are in the index and at
\* the remote, the remote map (when given) as just enumerated
UpdateDocsCall ==
    /\ search # NoSearch
    /\ pc = "idle"
    /\ \E doctype_instance \in Instances :
       \E local_map \in local_maps(ix, doctype_instance.doctype) :
       LET current == connector_remote_map(remote, doctype_instance) IN
       \E ids \in (SUBSET (DOMAIN local_map \cap DOMAIN current.items)) \ {{}} :
       \E to_update \in Orders(ids), remote_map \in {NoneVal, current} :
         LET r == update_docs(ix, writelock, remote, to_update,
                              doctype_instance, remote_map, local_map) IN
         /\ ix' = r.docs
         /\ writelock' = (writelock \/ r.leaked)
         /\ last' = [Call("update_docs") EXCEPT !.err = r.err,
                                                !.fetched = r.fetched,
                                                !.written = r.written,
                                                !.to_update = ids,
                                                !.doc = remote_map]
    /\ runs' = NoRuns
    /\ UNCHANGED <<REGISTRY, config, indexdir, search, remote, credsOK, instances, procs, pc, pass>>

\* the remote changes while no pass runs, or between a pass's enumeration and
\* its fetches, where the pass can see it: a document it is about to fetch is
\* modified or deleted (any other change during a pass is seen by the next
\* invocation only, like a change after the pass)
RemoteOpen(store, id) ==
    /\ store \in ConfiguredStores(config)
    /\ id \in StoreIds(store)
    /\ search # NoSearch
    /\ \/ pc = "idle"
       \/ pc = "add" /\ StoreOf(pass.inst) = store /\ id \in pass.to_add

\* PlainDoctype.register_document of a new document; a new issue at Github
RemoteRegister ==
    /\ \E store \in Stores : \E id \in StoreIds(store), t \in Times :
         /\ RemoteOpen(store, id)
         /\ remote[store][id] = Absent
         /\ remote' = [remote EXCEPT ![store][id] = RemoteDoc(store, t)]
    /\ runs' = RemoteChanged(runs)
    /\ last' = IF pc = "idle" THEN Call("remote") ELSE last
    /\ UNCHANGED <<REGISTRY, config, indexdir, ix, search, writelock, credsOK, instances, procs, pc, pass>>

\* the document is edited at the remote: a later modified_time, a new name
RemoteModify ==
    /\ \E store \in Stores : \E id \in StoreIds(store) :
         /\ RemoteOpen(store, id)
         /\ remote[store][id] # Absent
         /\ remote[store][id].modified_time < MaxTime
         /\ remote' = [remote EXCEPT ![store][id] =
                          RemoteDoc(store, remote[store][id].modified_time + 1)]
    /\ runs' = RemoteChanged(runs)
    /\ last' = IF pc = "idle" THEN Call("remote") ELSE last
    /\ UNCHANGED <<REGISTRY, config, indexdir, ix, search, writelock, credsOK, instances, procs, pc, pass>>

\* the document is deleted at the remote. A Github document that a pass has
\* enumerated and not yet fetched leaves an empty document in the index; the
\* model stops at MaxEmpty of them.
RemoteRemove ==
    /\ \E store \in Stores : \E id \in StoreIds(store) :
         /\ RemoteOpen(store, id)
         /\ remote[store][id] # Absent
         /\ (pc = "add" /\ StoreKind(store) # "plain") => CopiesOf(EmptyDoc, ix) < MaxEmpty
         /\ remote' = [remote EXCEPT ![store][id] = Absent]
    /\ runs' = RemoteChanged(runs)
    /\ last' = IF pc = "idle" THEN Call("remote") ELSE last
    /\ UNCHANGED <<REGISTRY, config, indexdir, ix, search, writelock, credsOK, instances, procs, pc, pass>>

\* the writer a failed call left open is collected once nothing refers to it
\* any more (whoosh's lock object releases WRITELOCK when it is deleted);
\* until then writer() raises LockError
CollectWriter ==
    /\ writelock
    /\ pc = "idle"
    /\ writelock' = FALSE
    /\ last' = Call("collect")
    /\ UNCHANGED <<REGISTRY, config, indexdir, ix, search, remote, credsOK, instances, procs, pc, pass, runs>>

---------------------------------------------------------------------------
(* The synchronizer: a Search object constructed on a fresh index directory *)

Init ==
    /\ REGISTRY = Registry("mismatched_field", DATETIME(TRUE))
    /\ config \in SyncConfigs
    /\ indexdir = [exists |-> TRUE, schema |-> get_schema(config, REGISTRY).schema]
    /\ ix = EmptyBag
    /\ search = [schema |-> get_schema(config, REGISTRY).schema]
    /\ writelock = FALSE
    /\ remote = NoRemote
    /\ credsOK \in IF "gh" \in ConfiguredStores(config) THEN BOOLEAN ELSE {TRUE}
    /\ instances = NoInstances
    /\ procs = NoProcs
    /\ pc = "idle"
    /\ pass = IdlePass
    /\ last = Call("Search")
    /\ runs = NoRuns

Next ==
    \/ SyncBegin
    \/ PassEnumerate
    \/ PassAdd
    \/ PassDelete
    \/ PassUpdate
    \/ UpdateDocsCall
    \/ RemoteRegister
    \/ RemoteModify
    \/ RemoteRemove
    \/ CollectWriter

Spec == Init /\ [][Next]_vars

---------------------------------------------------------------------------
(* Search.sync_documents(doctypes_list=...), credentials_list None *)

\* the lists of kinds a caller asks for under the plain configuration: the
\* configured kind alone, and with a registered kind that has no credentials
\* in the configuration, before or after it
KindLists ==
    { << "plain" >>,
      << "plain", "github_issue_pr" >>,
      << "github_issue_pr", "plain" >> }

\* search.py:105-109 with doctypes_list given: the list is iterated as it is
SyncKindsCall ==
    /\ search # NoSearch
    /\ pc = "idle"
    /\ \E doctypes_list \in KindLists :
       LET nm == get_doctypes_names_map(config)
           rn == BeginRun(runs, config, ix, remote, writelock)
           call == [Call("sync") EXCEPT !.args = Range(doctypes_list)]
       IN IF nm.ok
          THEN /\ pc' = "pair"
               /\ pass' = [IdlePass EXCEPT !.names_map = nm.map,
                                           !.doctypes = doctypes_list,
                                           !.second = (runs.n = 1)]
               /\ last' = call
               /\ runs' = rn
          ELSE /\ pc' = "idle"
               /\ pass' = IdlePass
               /\ last' = [call EXCEPT !.err = nm.err, !.second = (runs.n = 1)]
               /\ runs' = EndRun(rn)
    /\ UNCHANGED <<REGISTRY, config, indexdir, ix, search, writelock, remote, credsOK, instances, procs>>

InitKinds ==
    /\ Init
    /\ config = PlainOnly

NextKinds ==
    \/ SyncKindsCall
    \/ PassEnumerate
    \/ PassAdd
    \/ PassDelete
    \/ PassUpdate
    \/ RemoteRegister
    \/ RemoteModify
    \/ RemoteRemove
    \/ CollectWriter

SpecKinds == InitKinds /\ [][NextKinds]_vars

---------------------------------------------------------------------------
(* Construction: Search(), over processes that start with a configuration
   and an index directory that outlives them *)

\* copies of one document a direct add_doc may put into the index
MaxCopies == 2
\* documents the index may hold when a direct call adds to it
MaxIndexed == 3

ConflictMsg == "schema mismatch with existing index for field"
MismatchMsg == "schema mismatch! Specified schema from config file does not match schema of existing search index."

\* a comparison of the field names only
schemas_differ_in_names(ours, theirs) ==
    { d.field : d \in ours } # { d.field : d \in theirs }

\* search.py:84: self.schema != self.ix.schema, whoosh's Schema comparison:
\* the same field names with equal field objects
schemas_differ(ours, theirs) == ours # theirs

NoIndexDir == [exists |-> FALSE, schema |-> {}]

\* a constructor that opens or creates the index before it builds the schema:
\* a new index directory exists by the time the schema conflict is raised
search_init_opens_first(cfg, reg, dir, docs) ==
    LET built == get_schema(cfg, reg) IN
    IF ~built.ok
    THEN [err |-> built.err,
          indexdir |-> IF dir.exists THEN dir
                       ELSE [exists |-> TRUE, schema |-> built.schema],
          ix |-> IF dir.exists THEN docs ELSE EmptyBag,
          search |-> NoSearch, schema |-> {}]
    ELSE IF dir.exists
    THEN IF schemas_differ(built.schema, dir.schema)
         THEN [err |-> Error("CentillionSearchIndexException", MismatchMsg, "", ""),
               indexdir |-> dir, ix |-> docs, search |-> NoSearch,
               schema |-> built.schema]
         ELSE [err |-> NoError, indexdir |-> dir, ix |-> docs,
               search |-> [schema |-> built.schema], schema |-> built.schema]
    ELSE [err |-> NoError, indexdir |-> [exists |-> TRUE, schema |-> built.schema],
          ix |-> EmptyBag, search |-> [schema |-> built.schema],
          schema |-> built.schema]

\* Search.__init__: get_schema, then open_index (_open_index on an existing
\* index directory, _create_index otherwise); the directory, the committed
\* documents and the Search object afterwards, and the error raised
search_init(cfg, reg, dir, docs) ==
    LET built == get_schema(cfg, reg) IN
    IF ~built.ok
    THEN [err |-> built.err, indexdir |-> dir, ix |-> docs, search |-> NoSearch,
          schema |-> {}]
    ELSE IF dir.exists
    THEN IF schemas_differ(built.schema, dir.schema)
         THEN [err |-> Error("CentillionSearchIndexException", MismatchMsg, "", ""),
               indexdir |-> dir, ix |-> docs, search |-> NoSearch,
               schema |-> built.schema]
         ELSE [err |-> NoError, indexdir |-> dir, ix |-> docs,
               search |-> [schema |-> built.schema], schema |-> built.schema]
    ELSE [err |-> NoError, indexdir |-> [exists |-> TRUE, schema |-> built.schema],
          ix |-> EmptyBag, search |-> [schema |-> built.schema],
          schema |-> built.schema]

\* s = Search()
SearchInit ==
    /\ search = NoSearch
    /\ LET r == search_init(config, REGISTRY, indexdir, ix) IN
       /\ indexdir' = r.indexdir
       /\ ix' = r.ix
       /\ search' = r.search
       /\ last' = [Call("Search") EXCEPT !.err = r.err, !.schema = r.schema]
    /\ UNCHANGED <<REGISTRY, config, writelock, remote, credsOK, instances, procs, pc, pass, runs>>

\* Search.add_doc
add_doc(docs, locked, doc) ==
    IF locked THEN Result(LockError, docs, FALSE, {}, {})
    ELSE Result(NoError, writer_add_document(docs, doc), FALSE, {}, {doc.id})

\* s.add_doc(doc) with a document of the common schema (tests/util_searchdocs.py)
AddDocCall ==
    /\ search # NoSearch
    /\ pc = "idle"
    /\ \E doc \in { Doc("A", "plain", t) : t \in Times } :
         /\ CopiesOf(doc, ix) < MaxCopies
         /\ BagCardinality(ix) < MaxIndexed
         /\ LET r == add_doc(ix, writelock, doc) IN
            /\ ix' = r.docs
            /\ last' = [Call("add_doc") EXCEPT !.err = r.err, !.written = r.written,
                                               !.args = {doc.id}, !.doc = doc]
    /\ runs' = NoRuns
    /\ UNCHANGED <<REGISTRY, config, indexdir, search, writelock, remote, credsOK, instances, procs, pc, pass>>

\* the declarations a second test class may make for its second field
DeclFields == {"mismatched_field", "name"}
DeclTypes == {TEXT(TRUE), TEXT(FALSE), DATETIME(TRUE)}

\* the configurations of the construction runs
SchemaConfigs ==
    { << Cred("p1", "plain") >>,
      << Cred("m1", "mismatched-1") >>,
      << Cred("m2", "mismatched-2") >>,
      << Cred("m2", "mismatched-2"), Cred("m1", "mismatched-1") >>,
      << Cred("p1", "plain"), Cred("m2", "mismatched-2") >> }

\* the process ends and a new one starts with a configuration file
Restart ==
    /\ \E cfg \in SchemaConfigs : config' = cfg
    /\ search' = NoSearch
    /\ writelock' = FALSE
    /\ pc' = "idle"
    /\ pass' = IdlePass
    /\ last' = Call("restart")
    /\ runs' = NoRuns
    /\ UNCHANGED <<REGISTRY, indexdir, ix, remote, credsOK, instances, procs>>

\* the index directory is removed between processes (a temporary directory)
RemoveIndexDir ==
    /\ search = NoSearch
    /\ indexdir.exists
    /\ indexdir' = NoIndexDir
    /\ ix' = EmptyBag
    /\ last' = Call("rmtree")
    /\ UNCHANGED <<REGISTRY, config, search, writelock, remote, credsOK, instances, procs, pc, pass, runs>>

InitSchema ==
    /\ \E field \in DeclFields, ftype \in DeclTypes : REGISTRY = Registry(field, ftype)
    /\ config \in SchemaConfigs
    /\ indexdir = NoIndexDir
    /\ ix = EmptyBag
    /\ search = NoSearch
    /\ writelock = FALSE
    /\ remote = NoRemote
    /\ credsOK = TRUE
    /\ instances = NoInstances
    /\ procs = NoProcs
    /\ pc = "idle"
    /\ pass = IdlePass
    /\ last = Call("restart")
    /\ runs = NoRuns

NextSchema ==
    \/ SearchInit
    \/ AddDocCall
    \/ Restart
    \/ RemoveIndexDir

SpecSchema == InitSchema /\ [][NextSchema]_vars

---------------------------------------------------------------------------
(* Direct calls on a Search object over the plain connector, as the tests of
   SearchCrudTest make them *)

\* Search.delete_doc
delete_doc(docs, locked, doc_id) ==
    IF locked THEN Result(LockError, docs, FALSE, {}, {})
    ELSE Result(NoError, writer_delete_by_term(docs, doc_id), FALSE, {},
                {doc_id} \cap IdsIn(docs))

\* s.add_docs(doc_ids, PlainDoctype("")) with ids registered at the remote
AddDocsCall ==
    /\ search # NoSearch
    /\ pc = "idle"
    /\ \E doctype_instance \in Instances :
       LET current == connector_remote_map(remote, doctype_instance) IN
       \E ids \in (SUBSET (DOMAIN current.items)) \ {{}} :
       \E to_add \in Orders(ids) :
         LET r == add_docs(ix, writelock, remote, to_add, doctype_instance) IN
         /\ BagCardinality(r.docs) <= MaxIndexed
         /\ ix' = r.docs
         /\ writelock' = (writelock \/ r.leaked)
         /\ last' = [Call("add_docs") EXCEPT !.err = r.err, !.fetched = r.fetched,
                                            !.written = r.written, !.args = ids]
    /\ runs' = NoRuns
    /\ UNCHANGED <<REGISTRY, config, indexdir, search, remote, credsOK, instances, procs, pc, pass>>

\* s.delete_docs(doc_ids), a list or a set of ids, in the index or not
DeleteDocsCall ==
    /\ search # NoSearch
    /\ pc = "idle"
    /\ \E ids \in (SUBSET StoreIds("plain")) \ {{}} :
       \E to_delete \in Orders(ids) :
         LET r == delete_docs(ix, writelock, to_delete) IN
         /\ ix' = r.docs
         /\ writelock' = (writelock \/ r.leaked)
         /\ last' = [Call("delete_docs") EXCEPT !.err = r.err, !.written = r.written,
                                               !.args = ids]
    /\ runs' = NoRuns
    /\ UNCHANGED <<REGISTRY, config, indexdir, search, remote, credsOK, instances, procs, pc, pass>>

\* s.delete_doc(doc_id)
DeleteDocCall ==
    /\ search # NoSearch
    /\ pc = "idle"
    /\ \E doc_id \in StoreIds("plain") :
         LET r == delete_doc(ix, writelock, doc_id) IN
         /\ ix' = r.docs
         /\ writelock' = (writelock \/ r.leaked)
         /\ last' = [Call("delete_doc") EXCEPT !.err = r.err, !.written = r.written,
                                              !.args = {doc_id}]
    /\ runs' = NoRuns
    /\ UNCHANGED <<REGISTRY, config, indexdir, search, remote, credsOK, instances, procs, pc, pass>>

\* s.get_by_id(doc_id)
GetByIdCall ==
    /\ search # NoSearch
    /\ pc = "idle"
    /\ \E doc_id \in StoreIds("plain") :
       \E doc \in get_by_id_results(ix, doc_id) :
         last' = [Call("get_by_id") EXCEPT !.args = {doc_id}, !.returned = doc]
    /\ UNCHANGED <<REGISTRY, config, indexdir, ix, search, writelock, remote, credsOK, instances, procs,
                   pc, pass, runs>>

\* the documents the tests register with PlainDoctype before they call
CrudStart ==
    [id \in StoreIds("plain") |->
        IF id \in {"A", "B"} THEN RemoteDoc("plain", 0) ELSE Absent]

\* test_get_by_id and its neighbours: Search() under get_plain_config(), the
\* documents registered with PlainDoctype
InitCrud ==
    /\ REGISTRY = Registry("mismatched_field", DATETIME(TRUE))
    /\ config = PlainOnly
    /\ indexdir = [exists |-> TRUE, schema |-> get_schema(config, REGISTRY).schema]
    /\ ix = EmptyBag
    /\ search = [schema |-> get_schema(config, REGISTRY).schema]
    /\ writelock = FALSE
    /\ remote = [NoRemote EXCEPT !["plain"] = CrudStart]
    /\ credsOK = TRUE
    /\ instances = NoInstances
    /\ procs = NoProcs
    /\ pc = "idle"
    /\ pass = IdlePass
    /\ last = Call("Search")
    /\ runs = NoRuns

NextCrud ==
    \/ AddDocCall
    \/ AddDocsCall
    \/ UpdateDocsCall
    \/ DeleteDocsCall
    \/ DeleteDocCall
    \/ GetByIdCall
    \/ RemoteModify

SpecCrud == InitCrud /\ [][NextCrud]_vars

---------------------------------------------------------------------------
(* Claims about the synchronizer (Spec) *)

InPass == pc \in {"add", "delete", "update"}

RemoteKeys == DOMAIN pass.remote_map.items
LocalKeys == DOMAIN pass.local_map

BucketsOf(k) ==
    { b \in {"to_add", "to_delete", "to_update"} :
        \/ b = "to_add" /\ k \in pass.to_add
        \/ b = "to_delete" /\ k \in pass.to_delete
        \/ b = "to_update" /\ k \in pass.to_update }

\* C1: in a pass, a key is in to_add iff it is at the remote and not local, in
\* to_delete iff it is local and not at the remote, in to_update iff it is in
\* both; every key of the remote or the local map is in exactly one bucket and
\* no other key is in any.
C1_BucketsPartition ==
    InPass =>
        /\ \A k \in RemoteKeys \cup LocalKeys :
             /\ Cardinality(BucketsOf(k)) = 1
             /\ k \in pass.to_add <=> (k \in RemoteKeys /\ k \notin LocalKeys)
             /\ k \in pass.to_delete <=> (k \in LocalKeys /\ k \notin RemoteKeys)
             /\ k \in pass.to_update <=> (k \in RemoteKeys /\ k \in LocalKeys)
        /\ pass.to_add \cup pass.to_delete \cup pass.to_update = RemoteKeys \cup LocalKeys

\* a pass whose three buckets are all non-empty
C1_Witness ==
    /\ pc = "add"
    /\ pass.to_add # {}
    /\ pass.to_delete # {}
    /\ pass.to_update # {}

PlainDocs(times) == SetToBag({ Doc(id, "plain", times[id]) : id \in DOMAIN times })

\* C2: one plain instance with A, B, C at time 0: the first sync leaves
\* exactly A, B, C in the index; after B is removed and C modified (time 1, a
\* new name) the second sync leaves A as it was, no B, and C with the new name.
C2_AddUpdateDeleteCycle ==
    /\ runs.cycle = "synced1" => ix = PlainDocs([id \in {"A", "B", "C"} |-> 0])
    /\ runs.cycle = "synced2" => ix = PlainDocs([id \in {"A", "C"} |-> IF id = "C" THEN 1 ELSE 0])

\* the documents of the index with an id
DocsWithId(docs, id) == [d \in {e \in DOMAIN docs : e.id = id} |-> docs[d]]

StoreWith(id) == CHOOSE store \in Stores : id \in StoreIds(store)

\* the remote's modified_time of a document is not after that of any stored
\* document with its id
NotNewer(id) ==
    /\ remote[StoreWith(id)][id] # Absent
    /\ \A d \in DOMAIN ix :
         d.id = id => remote[StoreWith(id)][id].modified_time <= d.modified_time

\* C3: update_docs neither fetches nor rewrites a document of to_update whose
\* remote modified_time is not strictly greater than the stored one; the same
\* holds of the update step of a pass, against the pass's remote map.
C3_TimestampGating ==
    /\ [][ last'.op = "update_docs" =>
             \A id \in last'.to_update :
                NotNewer(id) =>
                   /\ id \notin last'.fetched
                   /\ DocsWithId(ix', id) = DocsWithId(ix, id) ]_vars
    /\ [][ pc = "update" =>
             \A id \in pass.to_update :
                pass.remote_map.items[id] <= pass.local_map[id] =>
                   /\ id \notin last'.fetched \ last.fetched
                   /\ DocsWithId(ix', id) = DocsWithId(ix, id) ]_vars

\* an update_docs call that returned, having fetched one id and left another
C3_Witness ==
    /\ last.op = "update_docs"
    /\ last.err = NoError
    /\ last.fetched # {}
    /\ last.to_update \ last.fetched # {}

SyncEnded == pc = "idle" /\ last.op = "sync"

\* C4: a sync invocation that follows a sync invocation, with no change of a
\* remote during either or between them, commits no document.
C4_Idempotence ==
    (SyncEnded /\ last.second /\ last.clean) => last.written = {}

\* C5: when the fetch of an enumerated id finds no document, the invocation
\* does not raise and the id is not in the index.
C5_DisappearingDocument ==
    (SyncEnded /\ last.vanished # {}) =>
        /\ last.err = NoError
        /\ last.vanished \cap IdsIn(ix) = {}

\* C6: when the pass of one pair raises, every other configured pair has its
\* pass all the same.
C6_FailureIsolation ==
    (SyncEnded /\ last.attempted # {} /\ last.err # NoError) =>
        last.attempted = Pairs(config)

---------------------------------------------------------------------------
(* Claims about construction (SpecSchema) *)

ConfiguredKinds == { config[i].doctype : i \in 1 .. Len(config) }

KindIndex(k) == CHOOSE i \in 1 .. Len(KindOrder) : KindOrder[i] = k

\* the declarations of a field that get_schema meets before it merges kind k:
\* the common schema's and those of the configured kinds sorted before k
EarlierDecls(k, f) ==
    { common_schema[i].ftype : i \in { j \in 1 .. Len(common_schema) :
                                         common_schema[j].field = f } }
    \cup { FieldOf(REGISTRY[h], f) : h \in { g \in ConfiguredKinds :
              KindIndex(g) < KindIndex(k) /\ HasField(REGISTRY[g], f) } }

DeclaredFields ==
    { common_schema[i].field : i \in 1 .. Len(common_schema) }
    \cup UNION { { REGISTRY[k][i].field : i \in 1 .. Len(REGISTRY[k]) } :
                 k \in ConfiguredKinds }

\* the (kind, field) pairs whose declaration has another class than an
\* earlier declaration of the field
ClassConflicts ==
    { kf \in ConfiguredKinds \X DeclaredFields :
        /\ HasField(REGISTRY[kf[1]], kf[2])
        /\ \E e \in EarlierDecls(kf[1], kf[2]) :
             e.cls # FieldOf(REGISTRY[kf[1]], kf[2]).cls }

\* the pairs of configured kinds that declare one field with two classes
KindConflicts ==
    { kkf \in ConfiguredKinds \X ConfiguredKinds \X DeclaredFields :
        /\ kkf[1] # kkf[2]
        /\ HasField(REGISTRY[kkf[1]], kkf[3])
        /\ HasField(REGISTRY[kkf[2]], kkf[3])
        /\ FieldOf(REGISTRY[kkf[1]], kkf[3]).cls # FieldOf(REGISTRY[kkf[2]], kkf[3]).cls }

\* the declarations that differ from an earlier declaration of the field,
\* in class or in options
DeclConflicts ==
    { kf \in ConfiguredKinds \X DeclaredFields :
        /\ HasField(REGISTRY[kf[1]], kf[2])
        /\ \E e \in EarlierDecls(kf[1], kf[2]) : e # FieldOf(REGISTRY[kf[1]], kf[2]) }

\* the pairs of configured kinds whose declarations of one field differ, in
\* class or in options
KindDeclConflicts ==
    { kkf \in ConfiguredKinds \X ConfiguredKinds \X DeclaredFields :
        /\ kkf[1] # kkf[2]
        /\ HasField(REGISTRY[kkf[1]], kkf[3])
        /\ HasField(REGISTRY[kkf[2]], kkf[3])
        /\ FieldOf(REGISTRY[kkf[1]], kkf[3]) # FieldOf(REGISTRY[kkf[2]], kkf[3]) }

SchemaConflictRaised ==
    /\ last.err.exc = "CentillionSearchIndexException"
    /\ last.err.msg = ConflictMsg

\* the kinds an error names
KindsNamed(err) == { err.doctype }

FieldsNamed(f) == { d \in last.schema : d.field = f }

\* C7 (as stated): two configured kinds that declare a field with different
\* types make the build fail with an error that names the field and both
\* kinds; with no such declarations the build succeeds and every field is in
\* the unified schema once.
C7_Original ==
    last.op = "Search" =>
        /\ \A kkf \in KindConflicts :
             /\ SchemaConflictRaised
             /\ last.err.field = kkf[3]
             /\ {kkf[1], kkf[2]} \subseteq KindsNamed(last.err)
        /\ ClassConflicts = {} =>
             /\ ~SchemaConflictRaised
             /\ \A f \in DeclaredFields : Cardinality(FieldsNamed(f)) = 1

\* C7 (amended): a configured kind that declares a field with another field
\* class than an earlier declaration (the common schema's, or that of a
\* configured kind earlier in sorted order) makes the build fail with an error
\* that names the field and that kind, the later one only; with no such
\* declaration the build succeeds and every declared field is in the unified
\* schema exactly once.
C7_Amended ==
    last.op = "Search" =>
        /\ ClassConflicts # {} =>
             /\ SchemaConflictRaised
             /\ <<last.err.doctype, last.err.field>> \in ClassConflicts
             /\ Cardinality(KindsNamed(last.err)) = 1
             /\ last.schema = {}
        /\ ClassConflicts = {} =>
             /\ ~SchemaConflictRaised
             /\ \A f \in DeclaredFields : Cardinality(FieldsNamed(f)) = 1
             /\ { d.field : d \in last.schema } = DeclaredFields

\* the constructor raised for mismatched-1 and mismatched-2 declaring
\* mismatched_field as TEXT and as DATETIME
C7_Witness ==
    /\ last.op = "Search"
    /\ SchemaConflictRaised
    /\ ConfiguredKinds = {"mismatched-1", "mismatched-2"}
    /\ last.err.field = "mismatched_field"
    /\ last.err.doctype = "mismatched-2"

\* C8 (as stated): two configured kinds whose declarations of one field differ
\* in anything, the stored option included, make the build fail with the
\* schema conflict error.
C8_Original ==
    (last.op = "Search" /\ KindDeclConflicts # {}) => SchemaConflictRaised

\* C8 (amended): declarations of one field are compared by field class only.
\* The build fails with the schema conflict error exactly when a declaration
\* has another class than an earlier one; a declaration that differs from the
\* earlier one in its options only is accepted, and the unified schema holds
\* the field with the options of the earlier declaration.
C8_Amended ==
    last.op = "Search" =>
        /\ SchemaConflictRaised <=> ClassConflicts # {}
        /\ ClassConflicts = {} =>
             \A kf \in DeclConflicts :
                \A d \in FieldsNamed(kf[2]) :
                   /\ d.ftype \in EarlierDecls(kf[1], kf[2])
                   /\ d.ftype # FieldOf(REGISTRY[kf[1]], kf[2])

\* mismatched-1 declares mismatched_field stored, mismatched-2 declares it
\* unstored; the schema is built and holds the stored field
C8_Witness ==
    /\ last.op = "Search"
    /\ ConfiguredKinds = {"mismatched-1", "mismatched-2"}
    /\ Decl("mismatched_field", TEXT(FALSE)) \in Schema(REGISTRY["mismatched-2"])
    /\ ~SchemaConflictRaised
    /\ Decl("mismatched_field", TEXT(TRUE)) \in last.schema

\* a step adds a document to the index
DocumentWritten == \E d \in DOMAIN ix' : CopiesOf(d, ix') > CopiesOf(d, ix)

\* C9: a constructor call that raises, in get_schema or in opening the index,
\* leaves the index directory and its documents as they were and yields no
\* Search object; a document is only ever written through a Search object
\* whose configuration has a conflict-free schema, the schema of the index.
C9_GlobalFailuresPrecedeWrites ==
    /\ [][ (last'.op = "Search" /\ last'.err # NoError) =>
              /\ indexdir' = indexdir
              /\ ix' = ix
              /\ search' = NoSearch ]_vars
    /\ [][ DocumentWritten =>
              /\ search # NoSearch
              /\ get_schema(config, REGISTRY).ok
              /\ ClassConflicts = {}
              /\ indexdir.exists
              /\ indexdir.schema = get_schema(config, REGISTRY).schema ]_vars

\* the constructor raised the schema conflict with no index directory there,
\* and there is none afterwards
C9_Witness ==
    /\ last.op = "Search"
    /\ SchemaConflictRaised
    /\ ~indexdir.exists
    /\ search = NoSearch

\* C10: a Search object exists only over an index whose schema is the one
\* built from the configuration; a constructor call that builds a schema
\* other than that of the existing index raises the schema mismatch error,
\* and the index keeps its schema and its documents.
C10_SchemaMismatch ==
    /\ search # NoSearch =>
         /\ indexdir.exists
         /\ search.schema = indexdir.schema
         /\ indexdir.schema = get_schema(config, REGISTRY).schema
    /\ ( /\ last.op = "Search"
         /\ get_schema(config, REGISTRY).ok
         /\ indexdir.exists
         /\ indexdir.schema # get_schema(config, REGISTRY).schema ) =>
            /\ last.err.exc = "CentillionSearchIndexException"
            /\ last.err.msg = MismatchMsg
            /\ search = NoSearch

\* the constructor raised the schema mismatch over an index that holds
\* documents written under another configuration
C10_Witness ==
    /\ last.op = "Search"
    /\ last.err.msg = MismatchMsg
    /\ indexdir.exists
    /\ ix # EmptyBag
    /\ search = NoSearch

---------------------------------------------------------------------------
(* Claims about the direct calls (SpecCrud) *)

\* the document the plain remote holds for an id
RemotePlainDoc(id) == Doc(id, "plain", remote["plain"][id].modified_time)

\* C11: a get_by_id that follows an add_doc, or an add_docs, returns the
\* document that call added for the id, equal on every field; get_by_id of an
\* id that is not in the index returns None.
C11_RoundTrip ==
    [][ last'.op = "get_by_id" =>
          \A doc_id \in last'.args :
             /\ (last.op = "add_doc" /\ last.err = NoError /\ last.doc.id = doc_id)
                   => last'.returned = last.doc
             /\ (last.op = "add_docs" /\ last.err = NoError /\ doc_id \in last.args)
                   => last'.returned = RemotePlainDoc(doc_id)
             /\ doc_id \notin IdsIn(ix) => last'.returned = NoneVal ]_vars

\* C12: the index holds at most one document for an id.
C12_IdUniqueness ==
    \A id \in IdsIn(ix) : BagCardinality(DocsWithId(ix, id)) <= 1

\* the remote's modified_time of a document is after that of every stored
\* document with its id
StrictlyNewer(id) ==
    /\ remote[StoreWith(id)][id] # Absent
    /\ \A d \in DOMAIN ix :
         d.id = id => remote[StoreWith(id)][id].modified_time > d.modified_time

\* C18: update_docs, given the remote map or not, fetches every id of
\* to_update whose remote modified_time is strictly newer than the stored
\* one, and afterwards the index holds for that id the remote's document and
\* nothing else, which is what get_by_id returns.
C18_UpdateRefreshes ==
    [][ last'.op = "update_docs" =>
          \A id \in last'.to_update :
             StrictlyNewer(id) =>
                /\ id \in last'.fetched
                /\ DocsWithId(ix', id) = SetToBag({RemotePlainDoc(id)})
                /\ get_by_id_results(ix', id) = {RemotePlainDoc(id)} ]_vars

\* update_docs was called without the remote map and rewrote a document with
\* the remote's newer fields, leaving another id as it was
C18_Witness ==
    /\ last.op = "update_docs"
    /\ last.doc = NoneVal
    /\ last.err = NoError
    /\ last.to_update \ last.written # {}
    /\ \E id \in last.written :
         /\ RemotePlainDoc(id).modified_time > 0
         /\ DocsWithId(ix, id) = SetToBag({RemotePlainDoc(id)})

\* C19: after delete_docs(S) or delete_doc(id), get_by_id returns None for
\* every id given, whether it was in the index or not, and the documents with
\* any other id are the same as before.
C19_DeleteSemantics ==
    [][ last'.op \in {"delete_docs", "delete_doc"} =>
          /\ \A id \in last'.args : get_by_id_results(ix', id) = {NoneVal}
          /\ \A d \in DOMAIN ix \cup DOMAIN ix' :
               d.id \notin last'.args => CopiesOf(d, ix') = CopiesOf(d, ix) ]_vars

\* delete_docs was given an id that was in the index and one that was not,
\* and a document with another id is still there
C19_Witness ==
    /\ last.op = "delete_docs"
    /\ last.err = NoError
    /\ last.written # {}
    /\ last.args \ last.written # {}
    /\ ix # EmptyBag

---------------------------------------------------------------------------
(* DoctypeRegistry.__new__: class creation *)

\* the value of a class attribute the class statement does not set
NoAttr == "<no attribute>"

\* the names and doctype labels of the class statements
ClassNames == {"_TestDoctypeSubclassA", "_TestDoctypeSubclassD"}
ClassLabels == {"subclass_a"}

\* type.__new__(cls, name, bases, attrs)
NewClass(name, bases, doctype) ==
    [name |-> name, bases |-> bases, attrs |-> [doctype |-> doctype]]

RECURSIVE getattr_doctype(_)
\* new_cls.doctype: the attribute of the class itself or, failing that, of its
\* base classes; NoAttr stands for AttributeError
getattr_doctype(cls) ==
    IF cls.attrs.doctype # NoAttr THEN cls.attrs.doctype
    ELSE IF cls.bases = << >> THEN NoAttr
    ELSE getattr_doctype(cls.bases[1])

NoClasses == [k \in {} |-> NoneVal]

\* cls.REGISTRY[new_name] = new_cls
registry_setitem(registry, new_name, new_cls) ==
    [k \in DOMAIN registry \cup {new_name} |->
        IF k = new_name THEN new_cls ELSE registry[k]]

\* a metaclass that refuses a class without the doctype attribute
registry_new_strict(registry, name, bases, doctype) ==
    LET new_cls == NewClass(name, bases, doctype) IN
      IF getattr_doctype(new_cls) = NoAttr
        THEN [registry |-> registry, cls |-> NoneVal, warnings |-> {},
              err |-> Error("AttributeError", "doctype", "", name)]
        ELSE [registry |-> registry_setitem(registry, getattr_doctype(new_cls), new_cls),
              cls |-> new_cls, warnings |-> {}, err |-> NoError]

\* DoctypeRegistry.__new__(cls, name, bases, attrs)
registry_new(registry, name, bases, doctype) ==
    LET new_cls == NewClass(name, bases, doctype)
        found == getattr_doctype(new_cls)
        new_name == IF found # NoAttr THEN found ELSE new_cls.name
    IN [registry |-> registry_setitem(registry, new_name, new_cls),
        cls |-> new_cls,
        warnings |-> IF found # NoAttr THEN {} ELSE {new_name},
        err |-> NoError]

\* the base class lists of a class statement: none, or one registered class
\* that has no base class itself
BaseLists(registry) ==
    { << >> } \cup { << registry[k] >> :
                      k \in { j \in DOMAIN registry : registry[j].bases = << >> } }

\* a class statement with metaclass=DoctypeRegistry, or with such a base class
ClassStatement ==
    /\ \E name \in ClassNames, doctype \in ClassLabels \cup {NoAttr},
          bases \in BaseLists(REGISTRY) :
         LET r == registry_new(REGISTRY, name, bases, doctype) IN
           /\ REGISTRY' = r.registry
           /\ last' = [Call("class") EXCEPT !.err = r.err, !.returned = r.cls,
                                            !.warnings = r.warnings]
    /\ UNCHANGED <<config, indexdir, ix, search, writelock, remote, credsOK, instances, procs, pc, pass, runs>>

\* a process before any module that declares a doctype is imported
InitRegistry ==
    /\ REGISTRY = NoClasses
    /\ config = << >>
    /\ indexdir = NoIndexDir
    /\ ix = EmptyBag
    /\ search = NoSearch
    /\ writelock = FALSE
    /\ remote = NoRemote
    /\ credsOK = TRUE
    /\ instances = NoInstances
    /\ procs = NoProcs
    /\ pc = "idle"
    /\ pass = IdlePass
    /\ last = Call("start")
    /\ runs = NoRuns

NextRegistry == ClassStatement

SpecRegistry == InitRegistry /\ [][NextRegistry]_vars

---------------------------------------------------------------------------
(* Claims about the registry (SpecRegistry) *)

---------------------------------------------------------------------------
(* validate_credentials of the Github and Google Drive connectors *)

\* the access tokens a configuration may name; Github accepts the first two
\* while the credentials are valid
AccessTokens == {"token-1", "token-2", "invalid-token"}
GoodTokens == {"token-1", "token-2"}

\* the token paths a configuration may name; the first two files exist
TokenPaths == {"credentials.json", "/etc/credentials.json", "missing.json"}
TokenFiles == {"credentials.json", "/etc/credentials.json"}

\* Github(access_token): the client object, built without any request
Github(access_token) == [tag |-> "Github", access_token |-> access_token]

\* an object of GithubBaseDoctype before _parse_config: the class attribute g
GithubObject(name) ==
    [cls |-> "GithubBaseDoctype", name |-> name, access_token |-> NoneVal,
     g |-> NoneVal]

\* an object of GDriveBaseDoctype before _parse_config: the class attribute drive
GDriveObject(name) ==
    [cls |-> "GDriveBaseDoctype", name |-> name, token_path |-> NoneVal,
     drive |-> NoneVal]

\* GithubBaseDoctype.validate_credentials without the test of self.g
github_validate_again(self, access_token, creds_ok) ==
    IF creds_ok /\ access_token \in GoodTokens
      THEN [self |-> [self EXCEPT !.g = Github(access_token)],
            api |-> {"get_repo"}, err |-> NoError]
      ELSE [self |-> [self EXCEPT !.g = Github(access_token)],
            api |-> {"get_repo"},
            err |-> Error("CentillionConfigException",
                          "invalid Github credentials", "", self.name)]

\* GithubBaseDoctype.validate_credentials(access_token): the client is stored
\* before get_repo(REPO_THAT_EXISTS) tests the token
github_validate_credentials(self, access_token, creds_ok) ==
    IF self.g = NoneVal
      THEN IF creds_ok /\ access_token \in GoodTokens
             THEN [self |-> [self EXCEPT !.g = Github(access_token)],
                   api |-> {"get_repo"}, err |-> NoError]
             ELSE [self |-> [self EXCEPT !.g = Github(access_token)],
                   api |-> {"get_repo"},
                   err |-> Error("CentillionConfigException",
                                 "invalid Github credentials", "", self.name)]
      ELSE [self |-> self, api |-> {}, err |-> NoError]

\* find_token_path: an absolute path as it is, a relative one under the
\* centillion root; CentillionConfigException when no file is there
find_token_path(token_path) ==
    IF token_path \notin TokenFiles
      THEN [path |-> NoneVal,
            err |-> Error("CentillionConfigException",
                          "Could not find Google Drive token", "", token_path)]
      ELSE IF Len(token_path) > 0 /\ Head(token_path) = Head("/")
        THEN [path |-> token_path, err |-> NoError]
        ELSE [path |-> "/centillion/" \o token_path, err |-> NoError]

\* get_gdrive_service(token_path): the resolved path and service.files(), built
\* from the discovery document; Exception when the stored credentials are
\* missing or invalid
get_gdrive_service(token_path, creds_ok) ==
    LET found == find_token_path(token_path) IN
      IF found.err # NoError
        THEN [path |-> NoneVal, files |-> NoneVal, api |-> {}, err |-> found.err]
      ELSE IF ~creds_ok
        THEN [path |-> NoneVal, files |-> NoneVal, api |-> {},
              err |-> Error("Exception", "invalid or missing credentials", "",
                            token_path)]
      ELSE [path |-> found.path,
            files |-> [tag |-> "drive.files", token_path |-> found.path],
            api |-> {"build"}, err |-> NoError]

\* GDriveBaseDoctype.validate_credentials(token_path)
gdrive_validate_credentials(self, token_path, creds_ok) ==
    IF self.drive = NoneVal
      THEN LET service == get_gdrive_service(token_path, creds_ok) IN
             IF service.err # NoError
               THEN [self |-> self, api |-> service.api, err |-> service.err]
               ELSE [self |-> [self EXCEPT !.token_path = service.path,
                                           !.drive = service.files],
                     api |-> service.api, err |-> NoError]
      ELSE [self |-> self, api |-> {}, err |-> NoError]

\* GithubBaseDoctype(name): __init__ and _parse_config with the access token of
\* the configuration; the caller gets the object unless validation raises
NewGithub ==
    /\ instances["gh"] = NoneVal
    /\ \E access_token \in AccessTokens :
         LET parsed == [GithubObject("gh") EXCEPT !.access_token = access_token]
             r == github_validate_credentials(parsed, access_token, credsOK)
         IN /\ instances' = [instances EXCEPT
                               !["gh"] = IF r.err = NoError THEN r.self ELSE NoneVal]
            /\ last' = [Call("GithubBaseDoctype") EXCEPT
                          !.args = {"gh"}, !.doc = access_token,
                          !.err = r.err, !.api = r.api]
    /\ UNCHANGED <<REGISTRY, config, indexdir, ix, search, writelock, remote, credsOK, procs,
                   pc, pass, runs>>

\* GDriveBaseDoctype(name): __init__ and _parse_config, which sets token_path to
\* the configured value after the validation
NewGDrive ==
    /\ instances["gd"] = NoneVal
    /\ \E tp \in TokenPaths :
         LET r == gdrive_validate_credentials(GDriveObject("gd"), tp, credsOK)
         IN /\ instances' = [instances EXCEPT
                               !["gd"] = IF r.err = NoError
                                           THEN [r.self EXCEPT !.token_path = tp]
                                           ELSE NoneVal]
            /\ last' = [Call("GDriveBaseDoctype") EXCEPT
                          !.args = {"gd"}, !.doc = tp, !.err = r.err, !.api = r.api]
    /\ UNCHANGED <<REGISTRY, config, indexdir, ix, search, writelock, remote, credsOK, procs,
                   pc, pass, runs>>

\* a further validate_credentials(access_token) on the Github object
ValidateGithub ==
    /\ instances["gh"] # NoneVal
    /\ \E access_token \in AccessTokens :
         LET r == github_validate_credentials(instances["gh"], access_token, credsOK)
         IN /\ instances' = [instances EXCEPT !["gh"] = r.self]
            /\ last' = [Call("validate_credentials") EXCEPT
                          !.args = {"gh"}, !.doc = access_token,
                          !.err = r.err, !.api = r.api]
    /\ UNCHANGED <<REGISTRY, config, indexdir, ix, search, writelock, remote, credsOK, procs,
                   pc, pass, runs>>

\* a further validate_credentials(token_path) on the Google Drive object
ValidateGDrive ==
    /\ instances["gd"] # NoneVal
    /\ \E tp \in TokenPaths :
         LET r == gdrive_validate_credentials(instances["gd"], tp, credsOK)
         IN /\ instances' = [instances EXCEPT !["gd"] = r.self]
            /\ last' = [Call("validate_credentials") EXCEPT
                          !.args = {"gd"}, !.doc = tp, !.err = r.err, !.api = r.api]
    /\ UNCHANGED <<REGISTRY, config, indexdir, ix, search, writelock, remote, credsOK, procs,
                   pc, pass, runs>>

\* the caller drops a connector object
DropInstance ==
    /\ \E n \in InstanceNames :
         /\ instances[n] # NoneVal
         /\ instances' = [instances EXCEPT ![n] = NoneVal]
         /\ last' = [Call("del") EXCEPT !.args = {n}]
    /\ UNCHANGED <<REGISTRY, config, indexdir, ix, search, writelock, remote, credsOK, procs,
                   pc, pass, runs>>

\* the credentials are revoked at the remote services, or granted again
CredentialsChange ==
    /\ credsOK' = ~credsOK
    /\ last' = Call("credentials")
    /\ UNCHANGED <<REGISTRY, config, indexdir, ix, search, writelock, remote, instances, procs,
                   pc, pass, runs>>

InitCreds == InitRegistry

NextCreds ==
    \/ NewGithub
    \/ NewGDrive
    \/ ValidateGithub
    \/ ValidateGDrive
    \/ DropInstance
    \/ CredentialsChange

SpecCreds == InitCreds /\ [][NextCreds]_vars

---------------------------------------------------------------------------
(* Claims about validate_credentials (SpecCreds) *)

\* the live API handle of a connector object
Handle(obj) == IF obj.cls = "GithubBaseDoctype" THEN obj.g ELSE obj.drive

\* C20: a validate_credentials call on an object whose construction validated
\* its credentials makes no remote request, raises nothing, and leaves the
\* object, its API handle included, as it was, whatever token it is given and
\* whether or not the remote would still accept it.
C20_ValidateIdempotent ==
    [][ last'.op = "validate_credentials" =>
          \A n \in last'.args :
            (instances[n] # NoneVal /\ Handle(instances[n]) # NoneVal) =>
              /\ last'.api = {}
              /\ last'.err = NoError
              /\ instances'[n] = instances[n]
              /\ Handle(instances'[n]) = Handle(instances[n]) ]_vars

\* a validated Github object was validated again, with another token than the
\* one its client holds, after the credentials were revoked
C20_Witness ==
    /\ last.op = "validate_credentials"
    /\ last.args = {"gh"}
    /\ ~credsOK
    /\ instances["gh"] # NoneVal
    /\ instances["gh"].g # NoneVal
    /\ instances["gh"].g.access_token # last.doc
    /\ instances["gd"] # NoneVal
    /\ last.err = NoError

---------------------------------------------------------------------------
(* Further claims about the synchronizer (Spec, SpecKinds) *)

\* every credential of the configuration has the same doctype
OneKind(cfg) == \A i, j \in 1 .. Len(cfg) : cfg[i].doctype = cfg[j].doctype

\* C13: under a configuration with n >= 1 names of one kind, a sync
\* invocation constructs a connector and begins a pass for each of the n
\* names.
C13_EveryPairOnce ==
    (SyncEnded /\ OneKind(config)) => last.attempted = Pairs(config)

\* the ids the remotes of the configured pairs hold
ConfiguredRemoteIds ==
    UNION { { id \in StoreIds(store) : remote[store][id] # Absent } :
            store \in ConfiguredStores(config) }

\* C14: what a sync invocation leaves in the index does not depend on which
\* pair is processed first. Whichever pair comes first has its documents
\* added, so with two configured pairs an invocation that added documents
\* (with the remotes unchanged throughout) leaves the documents of both pairs
\* in the index.
C14_OrderIndependence ==
    (/\ SyncEnded
     /\ last.clean
     /\ Len(config) = 2
     /\ last.written \cap IdsIn(ix) # {}) => ConfiguredRemoteIds \subseteq IdsIn(ix)

\* C15: a sync invocation that began the pass of a pair does not raise, and
\* it returns a report that lists the pairs it attempted.
C15_StructuredReport ==
    (SyncEnded /\ last.attempted # {}) =>
        /\ last.err = NoError
        /\ last.returned # NoneVal
        /\ last.returned.pairs = last.attempted

\* the pairs of the configuration whose kind is among the kinds asked for
PairsOf(kinds) == { p \in Pairs(config) : p[1] \in kinds }

\* C16: a sync invocation for a list of kinds of which one has no configured
\* credentials does not raise for that kind, and begins the pass of every
\* pair of the other kinds in the list.
C16_ZeroNamesSkipped ==
    (SyncEnded /\ last.args \ ConfiguredKinds # {}) =>
        /\ last.err.exc # "KeyError"
        /\ last.attempted = PairsOf(last.args)

---------------------------------------------------------------------------
(* _ignore_file_check of the file connectors *)

\* the longest repository path, in pieces
MaxPathLen == 2

\* file and directory names, as the sequences of their characters
PathPieces ==
    { << "a" >>,
      << ".", "g" >>,
      << "_", "x" >>,
      << "r", ".", "m", "d" >>,
      << "n", ".", "p", "y" >>,
      << "n", ".", "m", "a", "r", "k", "d", "o", "w", "n" >> }

\* item["path"] of a git tree entry, split at "/"
TreePaths == UNION { [1 .. n -> PathPieces] : n \in 1 .. MaxPathLen }

\* the names of Google Drive files
DriveNames ==
    { << "a" >>,
      << "_", "x" >>,
      << "t", ".", "d", "o", "c", "x" >>,
      << "t", ".", "d", "o", "c" >>,
      << "n", ".", "p", "d", "f" >> }

MimeTypes ==
    { "application/vnd.google-apps.document", "application/pdf",
      "application/vnd.google-apps.folder" }

\* os.path.split(fpath)[1]: the last piece of the path
path_basename(fpathpieces) == fpathpieces[Len(fpathpieces)]

\* os.path.splitext(p)[1]: from the last dot of the last piece on, unless only
\* dots precede it (a leading dot starts no extension)
path_splitext(fname) ==
    LET dots == { i \in 1 .. Len(fname) :
                    /\ fname[i] = "."
                    /\ \E j \in 1 .. i - 1 : fname[j] # "." }
    IN IF dots = {} THEN << >>
       ELSE SubSeq(fname, CHOOSE i \in dots : \A k \in dots : k <= i, Len(fname))

\* the candidate get_remote_map hands to the check for a tree path
GithubCandidate(fpathpieces) ==
    [fname |-> path_basename(fpathpieces),
     fext |-> path_splitext(path_basename(fpathpieces)),
     fpathpieces |-> fpathpieces]

DriveCandidate(fname, mimetype) == [fname |-> fname, mimetype |-> mimetype]

\* GithubFileDoctype._ignore_file_check
github_file_ignore(item) ==
    IF item.fname[1] = "." \/ item.fname[1] = "_" THEN TRUE
    ELSE \E i \in 1 .. Len(item.fpathpieces) :
            item.fpathpieces[i][1] = "." \/ item.fpathpieces[i][1] = "_"

MarkdownExts ==
    { << ".", "m", "d" >>, << ".", "m", "a", "r", "k", "d", "o", "w", "n" >> }

\* a Markdown check that tests the extension only
github_markdown_ignore_ext_only(item) == item.fext \notin MarkdownExts

\* GithubMarkdownDoctype._ignore_file_check: super() first, then the extension
github_markdown_ignore(item) ==
    IF github_file_ignore(item) THEN TRUE
    ELSE IF item.fext \notin MarkdownExts THEN TRUE
    ELSE FALSE

\* GDriveFileDoctype._ignore_file_check
gdrive_file_ignore(item) == FALSE

DocxExts == { << ".", "d", "o", "c", "x" >>, << ".", "d", "o", "c" >> }

\* GDriveDocxDoctype._ignore_file_check: super() is not consulted
gdrive_docx_ignore(item) ==
    IF path_splitext(item.fname) \in DocxExts THEN FALSE
    ELSE IF item.mimetype \in {"application/vnd.google-apps.document"} THEN FALSE
    ELSE TRUE

FileKinds == {"github_file", "github_markdown", "gdrive_file", "gdrive_docx"}

\* the class a file doctype specializes
ParentKind(kind) ==
    IF kind = "github_markdown" THEN "github_file"
    ELSE IF kind = "gdrive_docx" THEN "gdrive_file"
    ELSE kind

\* self._ignore_file_check(...) on an object of the doctype
ignore_file_check(kind, item) ==
    IF kind = "github_file" THEN github_file_ignore(item)
    ELSE IF kind = "github_markdown" THEN github_markdown_ignore(item)
    ELSE IF kind = "gdrive_file" THEN gdrive_file_ignore(item)
    ELSE gdrive_docx_ignore(item)

CandidatesOf(kind) ==
    IF kind \in {"github_file", "github_markdown"}
      THEN { GithubCandidate(p) : p \in TreePaths }
      ELSE { DriveCandidate(n, m) : n \in DriveNames, m \in MimeTypes }

\* get_remote_map asks the connector whether to ignore a candidate
IgnoreFileCheck ==
    /\ \E kind \in FileKinds :
         \E item \in CandidatesOf(kind) :
           last' = [Call("_ignore_file_check") EXCEPT
                      !.args = {kind}, !.doc = item,
                      !.returned = ignore_file_check(kind, item)]
    /\ UNCHANGED <<REGISTRY, config, indexdir, ix, search, writelock, remote, credsOK, procs,
                   instances, pc, pass, runs>>

InitIgnore == InitRegistry

NextIgnore == IgnoreFileCheck

SpecIgnore == InitIgnore /\ [][NextIgnore]_vars

---------------------------------------------------------------------------
(* Claims about the ignore checks (SpecIgnore) *)

\* C21: whenever the check of the parent class (GithubFileDoctype,
\* GDriveFileDoctype) excludes a candidate, the check of the specialized class
\* (GithubMarkdownDoctype, GDriveDocxDoctype) excludes it too.
C21_IgnoreMonotone ==
    last.op = "_ignore_file_check" =>
        \A kind \in last.args :
            ignore_file_check(ParentKind(kind), last.doc) => last.returned = TRUE

\* the Markdown connector was asked about a Markdown file in a hidden
\* directory, which the file connector excludes
C21_Witness ==
    /\ last.op = "_ignore_file_check"
    /\ last.args = {"github_markdown"}
    /\ last.doc.fext \in MarkdownExts
    /\ github_file_ignore(last.doc)
    /\ last.doc.fname[1] \notin {".", "_"}
    /\ last.returned = TRUE

---------------------------------------------------------------------------
(* GDriveFileDoctype.get_remote_map: paging through drive.list *)

\* the files of the Drive and the files of one page (pageSize, 100 in the code)
MaxFiles == 3
PageSize == 2

DriveFileIds == 1 .. MaxFiles

\* the values of CENTILLION_TEST_MODE; the first stands for the variable unset
\* (os.environ.get returns None)
TestModes == {"<unset>", "standalone", "integration"}

\* one entry of results["files"]
DriveFile(fid, t) ==
    [id |-> fid,
     name |-> IF fid % 3 = 1 THEN << "t", ".", "d", "o", "c", "x" >>
              ELSE IF fid % 3 = 2 THEN << "n", ".", "p", "d", "f" >>
              ELSE << "a" >>,
     mimeType |-> IF fid % 3 = 2 THEN "application/pdf"
                  ELSE "application/vnd.google-apps.document",
     modifiedTime |-> [iso |-> t]]

\* the listings of a Drive: its files in the order the API lists them
DriveListings ==
    UNION { { s \in [1 .. n -> { DriveFile(f, t) : f \in DriveFileIds, t \in Times }] :
                \A i, j \in 1 .. n : i # j => s[i].id # s[j].id } :
            n \in 0 .. MaxFiles }

\* dateutil.parser.parse(f["modifiedTime"])
parse_time(stamp) == stamp.iso

\* drive.list(pageSize=ps, pageToken=nextPageToken).execute(): the page that
\* starts at the token (None: the first) and the token of the next, if any
drive_list(listing, ps, pageToken) ==
    LET first == IF pageToken = NoneVal THEN 1 ELSE pageToken.first
        upto == IF first + ps - 1 < Len(listing) THEN first + ps - 1 ELSE Len(listing)
    IN [files |-> SubSeq(listing, first, upto),
        nextPageToken |-> IF upto < Len(listing)
                            THEN [tag |-> "pageToken", first |-> upto + 1]
                            ELSE NoneVal]

RECURSIVE page_files(_, _, _, _)
\* the loop over the files of a page, from the i-th on
page_files(kind, files, i, remote_map) ==
    IF i > Len(files) THEN remote_map
    ELSE LET f == files[i]
             ignore_file == ignore_file_check(kind, DriveCandidate(f.name, f.mimeType))
         IN page_files(kind, files, i + 1,
                IF ignore_file THEN remote_map
                ELSE [k \in DOMAIN remote_map \cup {f.id} |->
                        IF k = f.id THEN parse_time(f.modifiedTime) ELSE remote_map[k]])

RECURSIVE remote_map_pages(_, _, _, _, _)
\* the while loop of get_remote_map, entered with a page token
remote_map_pages(kind, listing, mode, pageToken, remote_map) ==
    LET results == drive_list(listing, PageSize, pageToken)
        filled == page_files(kind, results.files, 1, remote_map)
    IN IF results.nextPageToken = NoneVal \/ mode = "integration"
         THEN filled
         ELSE remote_map_pages(kind, listing, mode, results.nextPageToken, filled)

EmptyMap == [k \in {} |-> NoneVal]

\* a get_remote_map that asks for one page only
gdrive_first_page_only(kind, listing, mode) ==
    page_files(kind, drive_list(listing, PageSize, NoneVal).files, 1, EmptyMap)

\* GDriveFileDoctype.get_remote_map(self), inherited by GDriveDocxDoctype
gdrive_get_remote_map(kind, listing, mode) ==
    remote_map_pages(kind, listing, mode, NoneVal, EmptyMap)

\* get_remote_map() on the Drive connector of the process
GDriveGetRemoteMap ==
    /\ last.op = "start"
    /\ \E kind \in last.args :
         last' = [Call("get_remote_map") EXCEPT
                    !.args = {kind},
                    !.doc = last.doc,
                    !.returned = Dict(gdrive_get_remote_map(kind, last.doc.listing,
                                                            last.doc.mode))]
    /\ UNCHANGED <<REGISTRY, config, indexdir, ix, search, writelock, remote, credsOK, procs,
                   instances, pc, pass, runs>>

\* a process with a Drive connector of either kind, a Drive and an environment
InitPages ==
    /\ REGISTRY = NoClasses
    /\ config = << >>
    /\ indexdir = NoIndexDir
    /\ ix = EmptyBag
    /\ search = NoSearch
    /\ writelock = FALSE
    /\ remote = NoRemote
    /\ credsOK = TRUE
    /\ instances = NoInstances
    /\ procs = NoProcs
    /\ pc = "idle"
    /\ pass = IdlePass
    /\ \E kind \in {"gdrive_file", "gdrive_docx"}, listing \in DriveListings,
          mode \in TestModes :
         last = [Call("start") EXCEPT
                   !.args = {kind}, !.doc = [listing |-> listing, mode |-> mode]]
    /\ runs = NoRuns

NextPages == GDriveGetRemoteMap

SpecPages == InitPages /\ [][NextPages]_vars

---------------------------------------------------------------------------
(* Claims about the Drive enumeration (SpecPages) *)

\* the map of every file of the listing the connector does not ignore
WholeDriveMap(kind, listing) ==
    LET kept == { i \in 1 .. Len(listing) :
                    ~ignore_file_check(kind, DriveCandidate(listing[i].name,
                                                            listing[i].mimeType)) }
    IN [k \in { listing[i].id : i \in kept } |->
          parse_time((CHOOSE f \in Range(listing) : f.id = k).modifiedTime)]

FirstPage(listing) ==
    SubSeq(listing, 1, IF Len(listing) < PageSize THEN Len(listing) ELSE PageSize)

\* C22 as stated: in every run mode get_remote_map returns the map of every
\* non-ignored file of every page, and the empty map for an empty Drive.
C22_Original ==
    last.op = "get_remote_map" =>
        \A kind \in last.args :
            /\ last.err = NoError
            /\ last.returned = Dict(WholeDriveMap(kind, last.doc.listing))
            /\ last.doc.listing = << >> => last.returned = Dict(EmptyMap)

\* C22 amended: get_remote_map returns without error; unless CENTILLION_TEST_MODE
\* is "integration" the map holds every non-ignored file of every page; in
\* integration mode it holds the non-ignored files of the first page only; for
\* an empty Drive it is the empty map.
C22_Amended ==
    last.op = "get_remote_map" =>
        \A kind \in last.args :
            /\ last.err = NoError
            /\ last.doc.mode # "integration" =>
                 last.returned = Dict(WholeDriveMap(kind, last.doc.listing))
            /\ last.doc.mode = "integration" =>
                 last.returned = Dict(WholeDriveMap(kind, FirstPage(last.doc.listing)))
            /\ last.doc.listing = << >> => last.returned = Dict(EmptyMap)

\* a Drive of more than one page was enumerated outside integration mode, and
\* a file of the second page is in the map
C22_Witness ==
    /\ last.op = "get_remote_map"
    /\ last.doc.mode # "integration"
    /\ Len(last.doc.listing) > PageSize
    /\ \E i \in PageSize + 1 .. Len(last.doc.listing) :
         last.doc.listing[i].id \in DOMAIN last.returned.items
    /\ \E i \in 1 .. Len(last.doc.listing) :
         last.doc.listing[i].id \notin DOMAIN last.returned.items

---------------------------------------------------------------------------
(* Direct calls with ids and remote maps the caller computed earlier: a
   document may have left the remote by the time it is fetched *)

\* the ids the callers name
BucketIds == {"A", "B"}

\* s.add_docs(to_add, doctype_instance) with ids that are not in the index,
\* at the remote or not
AddDocsListCall ==
    /\ search # NoSearch
    /\ pc = "idle"
    /\ \E doctype_instance \in Instances :
       \E ids \in (SUBSET (BucketIds \ IdsIn(ix))) \ {{}} :
       \E to_add \in Orders(ids) :
         LET r == add_docs(ix, writelock, remote, to_add, doctype_instance) IN
         /\ ix' = r.docs
         /\ writelock' = (writelock \/ r.leaked)
         /\ last' = [Call("add_docs") EXCEPT !.err = r.err, !.fetched = r.fetched,
                                            !.written = r.written, !.args = ids]
    /\ runs' = NoRuns
    /\ UNCHANGED <<REGISTRY, config, indexdir, search, remote, credsOK, instances, procs, pc, pass>>

\* the remote maps a caller may hold for ids: what the remote listed for them
\* at some time
HeldRemoteMaps(ids) == { Dict(m) : m \in [ids -> Times] }

\* s.update_docs(to_update, doctype_instance[, remote_map]) with indexed ids
\* and, when given, a remote map that lists them
UpdateDocsListCall ==
    /\ search # NoSearch
    /\ pc = "idle"
    /\ \E doctype_instance \in Instances :
       \E local_map \in local_maps(ix, doctype_instance.doctype) :
       \E ids \in (SUBSET (DOMAIN local_map)) \ {{}} :
       \E to_update \in Orders(ids),
          remote_map \in {NoneVal} \cup HeldRemoteMaps(ids) :
         LET r == update_docs(ix, writelock, remote, to_update,
                              doctype_instance, remote_map, local_map) IN
         /\ ix' = r.docs
         /\ writelock' = (writelock \/ r.leaked)
         /\ last' = [Call("update_docs") EXCEPT !.err = r.err,
                                                !.fetched = r.fetched,
                                                !.written = r.written,
                                                !.to_update = ids]
    /\ runs' = NoRuns
    /\ UNCHANGED <<REGISTRY, config, indexdir, search, remote, credsOK, instances, procs, pc, pass>>

\* s.delete_docs(to_delete)
DeleteDocsListCall ==
    /\ search # NoSearch
    /\ pc = "idle"
    /\ \E ids \in (SUBSET BucketIds) \ {{}} :
       \E to_delete \in Orders(ids) :
         LET r == delete_docs(ix, writelock, to_delete) IN
         /\ ix' = r.docs
         /\ writelock' = (writelock \/ r.leaked)
         /\ last' = [Call("delete_docs") EXCEPT !.err = r.err, !.written = r.written,
                                               !.args = ids]
    /\ runs' = NoRuns
    /\ UNCHANGED <<REGISTRY, config, indexdir, search, remote, credsOK, instances, procs, pc, pass>>

InitBuckets == InitCrud

NextBuckets ==
    \/ AddDocsListCall
    \/ DeleteDocsListCall
    \/ UpdateDocsListCall
    \/ RemoteModify
    \/ RemoteRemove
    \/ CollectWriter

SpecBuckets == InitBuckets /\ [][NextBuckets]_vars

---------------------------------------------------------------------------
(* Claims about the buckets (SpecBuckets) *)

CountWithId(docs, id) == BagCardinality(DocsWithId(docs, id))

\* C23: an add_docs, delete_docs or update_docs call that raises (the writer
\* is taken, a fetched document has left the remote, an id is missing from the
\* remote map) leaves the committed documents exactly as they were, whatever
\* it had buffered and whatever earlier calls committed; a call that returns
\* has applied its whole bucket: one more document for every id added, none
\* left for every id deleted, the remote's document alone for every id
\* rewritten, and every other document as before.
C23_BucketAtomicity ==
    [][ last'.op \in {"add_docs", "delete_docs", "update_docs"} =>
          IF last'.err # NoError
            THEN ix' = ix
            ELSE \A id \in StoreIds("plain") :
                   /\ last'.op = "add_docs" =>
                        CountWithId(ix', id) = CountWithId(ix, id)
                                                + (IF id \in last'.args THEN 1 ELSE 0)
                   /\ last'.op = "delete_docs" =>
                        IF id \in last'.args THEN CountWithId(ix', id) = 0
                        ELSE DocsWithId(ix', id) = DocsWithId(ix, id)
                   /\ last'.op = "update_docs" =>
                        IF id \in last'.written
                          THEN DocsWithId(ix', id) = SetToBag({RemotePlainDoc(id)})
                          ELSE DocsWithId(ix', id) = DocsWithId(ix, id) ]_vars

\* an update_docs call fetched one document, then raised on a second one that
\* had left the remote; the documents an earlier add_docs committed are all
\* the index holds
C23_Witness ==
    /\ last.op = "update_docs"
    /\ last.err.exc = "TypeError"
    /\ \E a \in last.fetched : remote["plain"][a] # Absent
    /\ \E a \in last.fetched : remote["plain"][a] = Absent
    /\ IdsIn(ix) = BucketIds
    /\ writelock

---------------------------------------------------------------------------
(* Two processes write to one index: the steps of add_docs and delete_docs,
   from self.ix.writer() to writer.commit() *)

\* writer = self.ix.writer(): whoosh tries WRITELOCK once and raises
\* LockError when another writer holds it
BucketBegin(p) ==
    /\ search # NoSearch
    /\ procs[p].pc = "idle"
    /\ \E op \in {"add_docs", "delete_docs"} :
       \E ids \in (SUBSET (IF op = "add_docs" THEN BucketIds \ IdsIn(ix)
                           ELSE BucketIds \cap IdsIn(ix))) \ {{}} :
       \E todo \in Orders(ids) :
         IF writelock
           THEN /\ procs' = [procs EXCEPT ![p] =
                               [IdleProc EXCEPT !.op = op, !.ids = ids, !.err = LockError]]
                /\ last' = [Call(op) EXCEPT !.err = LockError, !.args = ids]
                /\ UNCHANGED writelock
           ELSE /\ procs' = [procs EXCEPT ![p] =
                               [pc |-> "loop", op |-> op, err |-> NoError, ids |-> ids,
                                todo |-> todo, buf |-> ix]]
                /\ writelock' = TRUE
                /\ UNCHANGED last
    /\ UNCHANGED <<REGISTRY, config, indexdir, ix, search, remote, credsOK, instances,
                   pc, pass, runs>>

\* one iteration of the loop: the document is fetched and buffered, or the
\* deletion is buffered
BucketStep(p) ==
    /\ procs[p].pc = "loop"
    /\ procs[p].todo # << >>
    /\ LET a == Head(procs[p].todo)
           doc == connector_get_by_id(remote, Instance("plain", "p1"), a)
       IN /\ doc # NoneVal
          /\ procs' = [procs EXCEPT
                         ![p].todo = Tail(@),
                         ![p].buf = IF procs[p].op = "add_docs"
                                      THEN writer_add_document(@, doc)
                                      ELSE writer_delete_by_term(@, a)]
    /\ UNCHANGED <<REGISTRY, config, indexdir, ix, search, writelock, remote, credsOK,
                   instances, pc, pass, last, runs>>

\* writer.commit(): the buffer becomes the committed index, WRITELOCK is freed
BucketCommit(p) ==
    /\ procs[p].pc = "loop"
    /\ procs[p].todo = << >>
    /\ ix' = procs[p].buf
    /\ writelock' = FALSE
    /\ procs' = [procs EXCEPT ![p] = [IdleProc EXCEPT !.op = procs[p].op,
                                                      !.ids = procs[p].ids]]
    /\ last' = [Call(procs[p].op) EXCEPT !.args = procs[p].ids, !.written = procs[p].ids]
    /\ UNCHANGED <<REGISTRY, config, indexdir, search, remote, credsOK, instances,
                   pc, pass, runs>>

\* get_local_map("plain") by any process: a searcher reads the committed index
ReadLocalMap ==
    /\ search # NoSearch
    /\ \E local_map \in local_maps(ix, "plain") :
         last' = [Call("get_local_map") EXCEPT !.returned = Dict(local_map)]
    /\ UNCHANGED <<REGISTRY, config, indexdir, ix, search, writelock, remote, credsOK,
                   instances, procs, pc, pass, runs>>

InitWriters == InitCrud

NextWriters ==
    \/ \E p \in ProcIds : BucketBegin(p)
    \/ \E p \in ProcIds : BucketStep(p)
    \/ \E p \in ProcIds : BucketCommit(p)
    \/ ReadLocalMap
    \/ RemoteModify

SpecWriters == InitWriters /\ [][NextWriters]_vars

---------------------------------------------------------------------------
(* Claims about concurrent writers (SpecWriters) *)

\* C24: at most one writer is open at any time, a reader sees the index as
\* some commit left it, and a process that finds the writer taken waits for it:
\* none of its calls ends with LockError.
C24_WriterSerialization ==
    /\ Cardinality({ p \in ProcIds : procs[p].pc = "loop" }) <= 1
    /\ \A p \in ProcIds : procs[p].err # LockError

---------------------------------------------------------------------------
(* Claims about the update step of a pass (Spec) *)

\* C25: the update step of a pass runs on the connector instance and the
\* remote map the pass enumerated once: it ends without AttributeError, having
\* fetched every id of to_update whose time in that map is later than the time
\* in the local map.
C25_OneEnumerationPerPass ==
    [][ (pc = "update" /\ pc' # "update") =>
          /\ last'.err.exc # "AttributeError"
          /\ \A id \in pass.to_update :
               pass.remote_map.items[id] > pass.local_map[id] => id \in last'.fetched ]_vars

---------------------------------------------------------------------------
(* Sync passes of one kind over an index that also holds documents of another
   kind *)

\* s.add_doc(doc) with a document of the common schema whose kind is not the
\* configured one and whose id a plain document may have too
AddOtherKindDocCall ==
    /\ search # NoSearch
    /\ pc = "idle"
    /\ \E doc \in { Doc("A", "github_issue_pr", 0) } :
         /\ CopiesOf(doc, ix) = 0
         /\ LET r == add_doc(ix, writelock, doc) IN
            /\ ix' = r.docs
            /\ last' = [Call("add_doc") EXCEPT !.err = r.err, !.written = r.written,
                                               !.args = {doc.id}, !.doc = doc]
    /\ runs' = NoRuns
    /\ UNCHANGED <<REGISTRY, config, indexdir, search, writelock, remote, credsOK,
                   instances, procs, pc, pass>>

InitFrame == Init /\ config = PlainOnly

NextFrame ==
    \/ AddOtherKindDocCall
    \/ SyncBegin
    \/ PassEnumerate
    \/ PassAdd
    \/ PassDelete
    \/ PassUpdate
    \/ RemoteRegister
    \/ RemoteRemove
    \/ CollectWriter

SpecFrame == InitFrame /\ [][NextFrame]_vars

---------------------------------------------------------------------------
(* Claims about kind isolation (SpecFrame) *)

\* C26: the add, delete and update steps of a pass for a kind leave every
\* indexed document of another kind as it was.
C26_KindIsolation ==
    [][ (pc = "add" \/ pc = "delete" \/ pc = "update") =>
          \A d \in DOMAIN ix \cup DOMAIN ix' :
             d.kind # pass.doctype => CopiesOf(d, ix') = CopiesOf(d, ix) ]_vars

---------------------------------------------------------------------------
(* Claims about the writer after a failure (SpecBuckets) *)

\* C27: when add_docs or update_docs raised in its loop, WRITELOCK is free
\* again, and the add, delete or update call that follows obtains a writer: it
\* does not raise LockError.
C27_WriterReleasedOnFailure ==
    [][ (/\ (last.op = "add_docs" \/ last.op = "update_docs")
         /\ last.err # NoError
         /\ last.err # LockError) =>
          /\ ~writelock
          /\ (last'.op = "add_docs" \/ last'.op = "delete_docs" \/ last'.op = "update_docs")
                => last'.err # LockError ]_vars

---------------------------------------------------------------------------
(* validate_credentials on objects the caller holds before they are validated *)

\* GithubBaseDoctype.__new__(GithubBaseDoctype) with the name set: an object
\* whose credentials were not validated yet
AllocGithub ==
    /\ instances["gh"] = NoneVal
    /\ instances' = [instances EXCEPT !["gh"] = GithubObject("gh")]
    /\ last' = [Call("__new__") EXCEPT !.args = {"gh"}]
    /\ UNCHANGED <<REGISTRY, config, indexdir, ix, search, writelock, remote, credsOK, procs,
                   pc, pass, runs>>

\* GDriveBaseDoctype.__new__(GDriveBaseDoctype) with the name set
AllocGDrive ==
    /\ instances["gd"] = NoneVal
    /\ instances' = [instances EXCEPT !["gd"] = GDriveObject("gd")]
    /\ last' = [Call("__new__") EXCEPT !.args = {"gd"}]
    /\ UNCHANGED <<REGISTRY, config, indexdir, ix, search, writelock, remote, credsOK, procs,
                   pc, pass, runs>>

InitAlloc == InitRegistry

NextAlloc ==
    \/ AllocGithub
    \/ AllocGDrive
    \/ ValidateGithub
    \/ ValidateGDrive
    \/ DropInstance
    \/ CredentialsChange

SpecAlloc == InitAlloc /\ [][NextAlloc]_vars

---------------------------------------------------------------------------
(* Claims about failed validation (SpecAlloc) *)

\* C28: after a validate_credentials call that raised, the object has no live
\* API handle, and the same call made again raises again.
C28_FailedValidationStaysFailed ==
    [][ (last.op = "validate_credentials" /\ last.err # NoError) =>
          \A n \in last.args :
            /\ instances[n] # NoneVal => Handle(instances[n]) = NoneVal
            /\ (last'.op = "validate_credentials" /\ last'.args = last.args
                  /\ last'.doc = last.doc) => last'.err # NoError ]_vars

---------------------------------------------------------------------------
(* Claims about replaced registry entries (SpecRegistry) *)

\* C29: a class statement replaces an existing registry entry only when the
\* new class itself declares the label of that entry; a class that declares
\* no label leaves every existing entry, its base class's too, as it was.
C29_ReplacedOnlyByDeclaration ==
    [][ last'.op = "class" =>
          \A k \in DOMAIN REGISTRY :
             /\ k \in DOMAIN REGISTRY'
             /\ REGISTRY'[k] # REGISTRY[k] => last'.returned.attrs.doctype = k ]_vars

---------------------------------------------------------------------------
(* Search.sync_documents(credentials_list=...) *)

\* the lists of credential names a caller asks for under the plain
\* configuration
CredLists == { << "p1" >> }

\* search.py:105-117 with credentials_list given: credentials_names is
\* assigned only when credentials_list is None (search.py:113-114), so the
\* inner loop head reads an unbound local in the first iteration of the outer
\* loop
SyncCredsCall ==
    /\ search # NoSearch
    /\ pc = "idle"
    /\ \E credentials_list \in CredLists :
       \E doctypes_list \in KindLists \cup { get_doctypes(config) } :
       LET nm == get_doctypes_names_map(config)
           rn == BeginRun(runs, config, ix, remote, writelock)
           call == [Call("sync") EXCEPT !.args = Range(doctypes_list),
                                        !.doc = [tag |-> "list", items |-> credentials_list],
                                        !.second = (runs.n = 1)]
       IN /\ pc' = "idle"
          /\ pass' = IdlePass
          /\ last' = IF ~nm.ok THEN [call EXCEPT !.err = nm.err]
                     ELSE IF Len(doctypes_list) = 0 THEN call
                     ELSE [call EXCEPT !.err =
                             Error("UnboundLocalError", "credentials_names", "",
                                   Head(doctypes_list))]
          /\ runs' = EndRun(rn)
    /\ UNCHANGED <<REGISTRY, config, indexdir, ix, search, writelock, remote, credsOK,
                   instances, procs>>

InitCredLists == InitKinds

NextCredLists ==
    \/ SyncCredsCall
    \/ SyncKindsCall
    \/ PassEnumerate
    \/ PassAdd
    \/ PassDelete
    \/ PassUpdate
    \/ RemoteRegister
    \/ RemoteRemove
    \/ CollectWriter

SpecCredLists == InitCredLists /\ [][NextCredLists]_vars

---------------------------------------------------------------------------
(* Claims about the arguments of sync_documents (SpecCredLists) *)

\* C30: a sync_documents call that is given a credentials_list does not fail
\* on its arguments: it raises no UnboundLocalError and begins a pass for
\* every credential name of the list.
C30_CredentialsListAccepted ==
    (SyncEnded /\ last.doc # NoneVal) =>
        /\ last.err.exc # "UnboundLocalError"
        /\ \A i \in 1 .. Len(last.doc.items) :
              \E doctype \in Kinds : Pair(doctype, last.doc.items[i]) \in last.attempted

====
